---- MODULE Spec2Model ----
(***************************************************************************)
(* A model of the data pipeline of the natural-gas dashboard: the file     *)
(* locator, the source loaders, the date-keyed merge of the benchmark      *)
(* prices, the serving of the pages and the rig-count metrics.             *)
(*                                                                         *)
(* File names, keywords and extensions are sequences of characters; a      *)
(* table is a sequence of rows (records), in the order pandas keeps them.  *)
(***************************************************************************)
EXTENDS Integers, Sequences, FiniteSets, TLC

VARIABLES
    dir,            \* the data directory: present file name -> st_mtime
    call,           \* the locator call whose result is in use, or NoCall
    files,          \* per source: NoFile, or the rows and st_mtime of its latest file
    phase,          \* "setup" while files are laid out for one call of the merge,
                    \* "merged" after it; "boot", "serving", "failed" for the process
    benchmark_df,   \* page1.benchmark_df
    price_table,    \* page1.price_table
    chart,          \* page1.price_chart and page1.time_stamp
    layout,         \* page1.layout .. page5.layout, by path
    page_content,   \* the children of page-content in the browser
    probe,          \* the parser run under test: its name, its input and its output
    rig,            \* page3.df_rig_all, and the tables prep_data_for_graph made of it
    net             \* the GET requests of the import, by download, and the one that failed;
                    \* how the latest call of update_chart ended

vars == <<dir, call, files, phase, benchmark_df, price_table, chart, layout, page_content, probe, rig,
          net>>
locVars == <<dir, call>>
benchVars == <<files, phase, benchmark_df, price_table, chart, layout, page_content>>

----------------------------------------------------------------------------
(* Bounds of the model.                                                    *)
MaxFiles == 2
MaxTime == 2
\* Rows in the three benchmark files together.
MaxRows == 4
\* Rows (or month columns) of the sheet handed to a parser.
MaxSheetRows == 2
MaxRigRows == 3

----------------------------------------------------------------------------
(* Values shared by the tables.                                            *)
\* Missing values. Dates and amounts are never negative, so a negative cell
\* is a missing one: NaT in a date column, NaN in a numeric one.
NaT == 0 - 1
NaN == 0 - 2
\* A cell holding text where a number is expected and no conversion is made.
Text == 0 - 3
IsNA(v) == v \in {NaT, NaN}

\* None, where a path is expected: no name is empty.
None == <<>>
NoCall == [active |-> FALSE, keyword |-> <<>>, ext |-> <<>>, result |-> None]
\* A source without a file in the data directory, and one with a file.
NoFile == [present |-> FALSE, rows |-> <<>>, mtime |-> 0]
FileOf(rows, t) == [present |-> TRUE, rows |-> rows, mtime |-> t]

RECURSIVE SeqsUpTo(_, _)
SeqsUpTo(S, n) ==
    IF n = 0 THEN {<<>>}
    ELSE LET shorter == SeqsUpTo(S, n - 1)
         IN  shorter \cup {Append(s, x) : s \in {t \in shorter : Len(t) = n - 1}, x \in S}

Range(s) == {s[i] : i \in DOMAIN s}

----------------------------------------------------------------------------
(* The file locator: load_latest_file / load_latest_excel.                 *)

\* Names of the directory entries the model lets exist. "K" stands for a
\* keyword such as JKM, ".c" for .csv and ".x" for .xlsx.
FileNames ==
    { <<"K", ".", "c">>, <<"a", "K", "b", ".", "c">>, <<"K", ".", "x">>,
      <<"a", ".", "c">>, <<"c", ".", "c">>, <<"K">> }

Keywords == { <<"K">>, <<"c">> }
Extensions == { <<".", "c">>, <<".", "x">> }

\* fnmatch of one path component: "*" matches any run of characters.
RECURSIVE GlobMatch(_, _)
GlobMatch(p, s) ==
    IF p = <<>> THEN s = <<>>
    ELSE IF Head(p) = "*"
         THEN GlobMatch(Tail(p), s) \/ (s # <<>> /\ GlobMatch(p, Tail(s)))
         ELSE s # <<>> /\ Head(s) = Head(p) /\ GlobMatch(Tail(p), Tail(s))

\* f"*{keyword}*{ext}"
Pattern(keyword, ext) == <<"*">> \o keyword \o <<"*">> \o ext

\* list(data_dir.glob(pattern))
Glob(d, keyword, ext) == {f \in DOMAIN d : GlobMatch(Pattern(keyword, ext), f)}

\* max(files, key=st_mtime): any file no other file is later than (max keeps
\* the first of equal keys, and the order of the listing is the file system's).
EarliestOf(d, listing) == {f \in listing : \A g \in listing : d[f] <= d[g]}
LatestOf(d, listing) == {f \in listing : \A g \in listing : d[g] <= d[f]}

\* max() of an empty list raises ValueError.
UnguardedResults(d, keyword, ext) ==
    IF Glob(d, keyword, ext) = {} THEN {<<"ValueError">>}
    ELSE LatestOf(d, Glob(d, keyword, ext))

\* The values load_latest_file may return.
LoadLatestResults(d, keyword, ext) ==
    IF Glob(d, keyword, ext) = {} THEN {None}
    ELSE LatestOf(d, Glob(d, keyword, ext))

LocInit ==
    /\ dir = <<>>
    /\ call = NoCall

\* A file is created or written: its modification time is set.
WriteFile(f, t) ==
    /\ ~call.active
    /\ f \in DOMAIN dir \/ Cardinality(DOMAIN dir) < MaxFiles
    /\ dir' = [g \in DOMAIN dir \cup {f} |-> IF g = f THEN t ELSE dir[g]]
    /\ UNCHANGED <<call, benchVars, probe, rig, net>>

RemoveFile(f) ==
    /\ ~call.active
    /\ f \in DOMAIN dir
    /\ dir' = [g \in DOMAIN dir \ {f} |-> dir[g]]
    /\ UNCHANGED <<call, benchVars, probe, rig, net>>

LoadLatestFile(keyword, ext) ==
    /\ ~call.active
    /\ \E r \in LoadLatestResults(dir, keyword, ext) :
          call' = [active |-> TRUE, keyword |-> keyword, ext |-> ext, result |-> r]
    /\ UNCHANGED <<dir, benchVars, probe, rig, net>>

\* The caller has used the result; the scan is synchronous, so the directory
\* is the one the call saw for as long as the result is in use.
Return ==
    /\ call.active
    /\ call' = NoCall
    /\ UNCHANGED <<dir, benchVars, probe, rig, net>>

LocNext ==
    \/ \E f \in FileNames : \E t \in 1..MaxTime : WriteFile(f, t)
    \/ \E f \in FileNames : RemoveFile(f)
    \/ \E keyword \in Keywords : \E ext \in Extensions : LoadLatestFile(keyword, ext)
    \/ Return

----------------------------------------------------------------------------
(* The locator against the names in the directory.                         *)

Contains(s, w) == \E i \in 0..(Len(s) - Len(w)) : SubSeq(s, i + 1, i + Len(w)) = w
EndsWith(s, w) == Len(w) <= Len(s) /\ SubSeq(s, Len(s) - Len(w) + 1, Len(s)) = w

\* The name contains the keyword and ends with the extension.
NameMatches(f, keyword, ext) == Contains(f, keyword) /\ EndsWith(f, ext)

\* The name ends with the extension and contains the keyword before it.
StemMatches(f, keyword, ext) ==
    EndsWith(f, ext) /\ Contains(SubSeq(f, 1, Len(f) - Len(ext)), keyword)

C2_NoneWhenNoMatch ==
    call.active /\ (\A f \in DOMAIN dir : ~StemMatches(f, call.keyword, call.ext)) =>
        call.result = None

\* Files exist, none of them matches, and the call has returned None.
C2_Witness ==
    /\ call.active
    /\ dir # <<>>
    /\ \A f \in DOMAIN dir : ~NameMatches(f, call.keyword, call.ext)
    /\ call.result = None

----------------------------------------------------------------------------
(* Cells and their conversions. A date is the integer yyyymmdd, a price    *)
(* an integer number of cents; a cell of a file is the text in it.         *)

DateTexts == {"2024-01-01", "2024-01-02", "n/a"}

\* pd.to_datetime(text, errors="coerce")
ToDatetime(text) ==
    CASE text = "2024-01-01" -> 20240101
      [] text = "2024-01-02" -> 20240102
      [] text = "2015-12-01" -> 20151201
      [] text = "2026-06-01" -> 20260601
      [] text = "2023-06-01" -> 20230601
      [] text = "2023-08-01" -> 20230801
      [] text = "2024-03-01" -> 20240301
      [] text = "2024-07-01" -> 20240701
      [] text = "2024-08-01" -> 20240801
      [] text = "2024-09-01" -> 20240901
      [] OTHER -> NaT

\* pd.to_numeric(text, errors="coerce"), in cents
ToNumeric(text) ==
    CASE text = "2.00" -> 200
      [] text = "3.00" -> 300
      [] text = "12.00" -> 1200
      [] text = "30.00" -> 3000
      [] text = "1" -> 100
      [] text = "2" -> 200
      [] OTHER -> NaN

EmptyFrame == [columns |-> <<>>, rows |-> <<>>]

\* A result, or the exception raised instead of one.
Ok(df) == [fault |-> "", df |-> df]
Raise(e) == [fault |-> e, df |-> EmptyFrame]

\* parse_month_label: "<full month name> '<yy>", anything else is NaT
ParseMonthLabel(label) ==
    CASE label = "July '25" -> 20250701
      [] label = "August '25" -> 20250801
      [] OTHER -> NaT

\* pd.to_datetime(label, format="%Y-%m", errors="coerce")
ToYearMonth(label) ==
    CASE label = "2018-01" -> 20180101
      [] label = "2024-01" -> 20240101
      [] label = "2024-02" -> 20240201
      [] label = "2025-01" -> 20250101
      [] OTHER -> NaT

YearOf(d) == d \div 10000
MonthOf(d) == (d \div 100) % 100
\* dt.to_period("M").dt.to_timestamp(): the first day of the date's month
MonthStart(d) == (d \div 100) * 100 + 1

----------------------------------------------------------------------------
(* Tables: [columns |-> the column names, rows |-> the rows in order].     *)

Frame(columns, rows) == [columns |-> columns, rows |-> rows]

HasColumn(df, c) == c \in Range(df.columns)

\* The columns that hold text; an empty text cell is the missing one.
TextColumns == {"Country", "Status", "Basin", "DrillFor", "Activity", "Region"}
Missing(r, c) == IF c \in TextColumns THEN r[c] = "" ELSE IsNA(r[c])

\* dropna(how="all"): only a row with no value at all goes.
DropNaAll(df) ==
    LET Keep(r) == \E c \in Range(df.columns) : ~Missing(r, c)
    IN  Frame(df.columns, SelectSeq(df.rows, Keep))

\* dropna(): a row with a missing value in any column goes.
DropNa(df) ==
    LET Keep(r) == \A c \in Range(df.columns) : ~Missing(r, c)
    IN  Frame(df.columns, SelectSeq(df.rows, Keep))

\* A row cut to the columns of its table (a merge numbers its rows anew).
Cells(r, columns) == [c \in Range(columns) |-> r[c]]

RECURSIVE Concat(_)
Concat(ss) == IF ss = <<>> THEN <<>> ELSE Head(ss) \o Concat(Tail(ss))

\* The keys of a join in the order pandas sorts them: dates ascending, NaT last.
RECURSIVE SortedKeys(_)
SortedKeys(S) ==
    IF S = {} THEN <<>>
    ELSE IF \A x \in S : IsNA(x) THEN <<CHOOSE x \in S : TRUE>> \o SortedKeys(S \ {CHOOSE x \in S : TRUE})
    ELSE LET k == CHOOSE x \in S : ~IsNA(x) /\ \A y \in S : IsNA(y) \/ x <= y
         IN  <<k>> \o SortedKeys(S \ {k})

KeysOf(df, key) == {r[key] : r \in Range(df.rows)}

MissingCells(columns, key) == [c \in Range(columns) \ {key} |-> NaN]

\* Columns of a merge: the left ones, then the right ones but the key.
MergedColumns(left, right, key) ==
    LET NotKey(c) == c # key IN left.columns \o SelectSeq(right.columns, NotKey)

\* A join that looks each left row up in the right table and keeps the first
\* match only (Series.map instead of merge).
LookupMerge(left, right, key) ==
    LET Row(l) ==
            LET Same(r) == r[key] = l[key]
                R == SelectSeq(right.rows, Same)
            IN  IF R = <<>> THEN l @@ MissingCells(right.columns, key) ELSE l @@ R[1]
        columns == MergedColumns(left, right, key)
    IN  Frame(columns, [i \in 1..Len(left.rows) |-> Cells(Row(left.rows[i]), columns)])

\* pd.merge(left, right, on=key, how="outer"): every pair of rows with the same
\* key, and the rows of either side without a partner filled with NaN; the
\* keys come out sorted.
Merge(left, right, key) ==
    LET Block(k) ==
            LET Same(r) == r[key] = k
                L == SelectSeq(left.rows, Same)
                R == SelectSeq(right.rows, Same)
            IN  IF R = <<>>
                THEN [i \in 1..Len(L) |-> L[i] @@ MissingCells(right.columns, key)]
                ELSE IF L = <<>>
                THEN [j \in 1..Len(R) |-> R[j] @@ MissingCells(left.columns, key)]
                ELSE Concat([i \in 1..Len(L) |-> [j \in 1..Len(R) |-> L[i] @@ R[j]]])
        keys == SortedKeys(KeysOf(left, key) \cup KeysOf(right, key))
        columns == MergedColumns(left, right, key)
        all == Concat([n \in 1..Len(keys) |-> Block(keys[n])])
    IN  Frame(columns, [n \in 1..Len(all) |-> Cells(all[n], columns)])

\* sort_values(key): ascending, NaT last, rows of one key in their order.
SortValues(df, key) ==
    LET keys == SortedKeys(KeysOf(df, key))
        Of(k) == LET Same(r) == r[key] = k IN SelectSeq(df.rows, Same)
    IN  Frame(df.columns, Concat([n \in 1..Len(keys) |-> Of(keys[n])]))

----------------------------------------------------------------------------
(* The benchmark price loaders and their merge (page1).                    *)

Sources == {"HenryHub", "JKM", "TTF_Daily"}

\* The column of the file that holds the price, and the column it becomes.
PriceColumn(src) == IF src = "HenryHub" THEN "Close" ELSE "Price"
ValueColumn(src) ==
    CASE src = "HenryHub" -> "Henry Hub" [] src = "JKM" -> "JKM" [] OTHER -> "TTF (USD)"

\* The rows a file of the source may hold: [Date |-> text, <price column> |-> text],
\* with good and bad dates and good and bad prices.
PriceRow(src, d, v) == ("Date" :> d) @@ (PriceColumn(src) :> v)
RawCells(src) ==
    CASE src = "HenryHub" ->
            { <<"2024-01-01", "2.00">>, <<"2024-01-01", "3.00">>, <<"2024-01-02", "2.00">>,
              <<"n/a", "2.00">>, <<"2024-01-02", "--">> }
      [] src = "JKM" ->
            { <<"2024-01-01", "12.00">>, <<"2024-01-02", "12.00">>,
              <<"n/a", "12.00">>, <<"2024-01-01", "--">> }
      [] OTHER ->
            { <<"2024-01-01", "30.00">>, <<"2024-01-02", "30.00">>,
              <<"n/a", "30.00">>, <<"2024-01-02", "--">> }
RawRows(src) == {PriceRow(src, c[1], c[2]) : c \in RawCells(src)}

\* eur_usd_rate = 1.17 and 3.412 MMBtu per MWh, in thousandths.
EurUsdRate == 1170
MMBtuPerMWh == 3412
\* price * eur_usd_rate / 3.412, NaN staying NaN (cents, rounded down)
ToUsdPerMMBtu(v) == IF IsNA(v) THEN NaN ELSE (v * EurUsdRate) \div MMBtuPerMWh

PriceOf(src, text) ==
    IF src = "TTF_Daily" THEN ToUsdPerMMBtu(ToNumeric(text)) ELSE ToNumeric(text)

\* pd.read_csv, to_datetime and to_numeric with errors="coerce", and the two
\* columns kept
ReadPrices(src, file) ==
    LET columns == <<"Date", ValueColumn(src)>>
        Row(i) == ("Date" :> ToDatetime(file.rows[i].Date))
                  @@ (ValueColumn(src) :> PriceOf(src, file.rows[i][PriceColumn(src)]))
                  @@ ("index" :> i)
    IN  Frame(columns, [i \in 1..Len(file.rows) |-> Row(i)])

\* A price loader without the final dropna.
LoadPricesKeepNa(src, file) ==
    IF ~file.present THEN Frame(<<"Date", ValueColumn(src)>>, <<>>)
    ELSE ReadPrices(src, file)

\* load_henry_hub / load_jkm / load_ttf: the empty table when no file is found,
\* else the rows with both cells converted, those with a missing cell dropped.
LoadPrices(src, file) ==
    IF ~file.present THEN Frame(<<"Date", ValueColumn(src)>>, <<>>)
    ELSE DropNa(ReadPrices(src, file))

MergeAll(hh, jkm, ttf) == Merge(Merge(hh, jkm, "Date"), ttf, "Date")

\* get_benchmark_prices_daily with dropna(how="all").
GetBenchmarkDropAll(fs) ==
    DropNaAll(SortValues(MergeAll(LoadPrices("HenryHub", fs["HenryHub"]),
                                  LoadPrices("JKM", fs["JKM"]),
                                  LoadPrices("TTF_Daily", fs["TTF_Daily"])), "Date"))

\* get_benchmark_prices_daily without the dropna.
GetBenchmarkKeepNa(fs) ==
    SortValues(MergeAll(LoadPrices("HenryHub", fs["HenryHub"]),
                        LoadPrices("JKM", fs["JKM"]),
                        LoadPrices("TTF_Daily", fs["TTF_Daily"])), "Date")

\* get_benchmark_prices_daily
GetBenchmarkPricesDaily(fs) ==
    DropNa(SortValues(MergeAll(LoadPrices("HenryHub", fs["HenryHub"]),
                               LoadPrices("JKM", fs["JKM"]),
                               LoadPrices("TTF_Daily", fs["TTF_Daily"])), "Date"))

----------------------------------------------------------------------------
(* The forward-curve loaders (page1). The workbook's rows here are the     *)
(* columns of its two sheets from the seventh on: [sheet, label, price],   *)
(* the label of row 1 and the cell of row 3.                               *)

ForwardColumn(sheet) == IF sheet = "TTF_Curve" THEN "TTF_Forward_Price" ELSE "HH_Forward_Price"

\* load_ttf_forward (sheet TTF_Curve) and load_hh_forward (sheet NG_Curve):
\* without a workbook an empty table of two columns; else one row per column
\* of the sheet, Month parsed from the label, the price cell as it is, and
\* Date a copy of Month. No row is dropped.
LoadForward(sheet, file) ==
    IF ~file.present THEN Frame(<<"Month", ForwardColumn(sheet)>>, <<>>)
    ELSE LET Row(i) == ("Month" :> ParseMonthLabel(file.rows[i].label))
                       @@ (ForwardColumn(sheet) :> file.rows[i].price)
                       @@ ("Date" :> ParseMonthLabel(file.rows[i].label))
                       @@ ("index" :> i) @@ ("sheet" :> file.rows[i].sheet)
             OfSheet(r) == r.sheet = sheet
         IN  Frame(<<"Month", ForwardColumn(sheet), "Date">>,
                   SelectSeq([i \in 1..Len(file.rows) |-> Row(i)], OfSheet))

\* pd.merge(left, right, on=key, how="inner"); a column that is not there is
\* a KeyError.
MergeInner(left, right, key) ==
    IF ~HasColumn(left, key) \/ ~HasColumn(right, key) THEN Raise("KeyError")
    ELSE LET both == Merge(left, right, key)
             Paired(r) ==
                 /\ \E l \in Range(left.rows) : l[key] = r[key]
                 /\ \E x \in Range(right.rows) : x[key] = r[key]
         IN  Ok(Frame(both.columns, SelectSeq(both.rows, Paired)))

----------------------------------------------------------------------------
(* The pipeline-project loader (page2).                                    *)

\* load_pipeline_data: FileNotFoundError without a file; else First Cargo is
\* converted, Year taken from it, and only the rows that are empty in every
\* column are dropped.
LoadPipelineData(file) ==
    IF ~file.present THEN Raise("FileNotFoundError")
    ELSE LET Row(i) ==
                 LET d == ToDatetime(file.rows[i]["First Cargo"])
                 IN  ("Country" :> file.rows[i].Country) @@ ("Status" :> file.rows[i].Status)
                     @@ ("MTPA" :> file.rows[i].MTPA) @@ ("First Cargo" :> d)
                     @@ ("Year" :> IF IsNA(d) THEN NaN ELSE YearOf(d)) @@ ("index" :> i)
         IN  Ok(DropNaAll(Frame(<<"Country", "Status", "MTPA", "First Cargo", "Year">>,
                                [i \in 1..Len(file.rows) |-> Row(i)])))

Africa == {"Nigeria", "Mozambique"}
AsiaPacific == {"Australia", "Malaysia", "Indonesia"}

\* load_balance_data: FileNotFoundError without a file; else the supply and
\* the demand section of the sheet (extract_section), the supply countries
\* renamed to their region, the rows without a country dropped.
LoadBalanceData(file) ==
    IF ~file.present
    THEN [fault |-> "FileNotFoundError", supply |-> EmptyFrame, demand |-> EmptyFrame]
    ELSE LET Section(rows, category, Rename(_)) ==
                 LET Row(i) == ("Category" :> category) @@ ("Country" :> Rename(rows[i].Country))
                               @@ ("2024" :> rows[i]["2024"]) @@ ("index" :> i)
                     Named(r) == r.Country # ""
                 IN  Frame(<<"Category", "Country", "2024">>,
                           SelectSeq([i \in 1..Len(rows) |-> Row(i)], Named))
             Region(c) == IF c \in Africa THEN "Africa"
                          ELSE IF c \in AsiaPacific THEN "Asia-Pacific" ELSE c
             Same(c) == c
         IN  [fault |-> "",
              supply |-> Section(file.rows.supply, "Supply", Region),
              demand |-> Section(file.rows.demand, "Demand", Same)]

----------------------------------------------------------------------------
(* The rig-count, import/export, production and storage parsers.           *)

YearCutoff == 2016

FOCUS_BASINS == {"Marcellus", "Haynesville", "Permian", "Eagle Ford", "Utica", "Woodford"}
WoodfordAliases == {"Ardmore Woodford", "Arkoma Woodford", "Cana Woodford"}

\* x.strip()
Strip(text) ==
    CASE text = " Gas" -> "Gas"
      [] text = "UNITED STATES " -> "UNITED STATES"
      [] OTHER -> text

\* A cleaner that leaves the basin as the sheet names it.
KeepBasin(basin) == basin

\* replace(woodford_aliases, "Woodford")
ReplaceWoodford(basin) == IF basin \in WoodfordAliases THEN "Woodford" ELSE basin

\* clean_rig_count_data without the filter on DrillFor.
CleanRigCountDataAnyFuel(rows) ==
    LET Row(i) ==
            ("Country" :> Strip(rows[i].Country)) @@ ("DrillFor" :> Strip(rows[i].DrillFor))
            @@ ("US_PublishDate" :> ToDatetime(rows[i].US_PublishDate))
            @@ ("Basin" :> ReplaceWoodford(Strip(rows[i].Basin)))
            @@ ("Rig Count Value" :> rows[i]["Rig Count Value"]) @@ ("index" :> i)
        Keep(r) ==
            /\ r.Country = "UNITED STATES"
            /\ ~IsNA(r.US_PublishDate) /\ YearOf(r.US_PublishDate) >= YearCutoff
    IN  Frame(<<"Country", "DrillFor", "US_PublishDate", "Basin", "Rig Count Value">>,
              SelectSeq([i \in 1..Len(rows) |-> Row(i)], Keep))

\* clean_rig_count_data on the rows under the header row: the rows of the
\* United States drilling for gas published in 2016 or later, the Woodford
\* sub-basins renamed.
CleanRigCountData(rows) ==
    LET Row(i) ==
            ("Country" :> Strip(rows[i].Country)) @@ ("DrillFor" :> Strip(rows[i].DrillFor))
            @@ ("US_PublishDate" :> ToDatetime(rows[i].US_PublishDate))
            @@ ("Basin" :> ReplaceWoodford(Strip(rows[i].Basin)))
            @@ ("Rig Count Value" :> rows[i]["Rig Count Value"]) @@ ("index" :> i)
        Keep(r) ==
            /\ r.Country = "UNITED STATES"
            /\ r.DrillFor = "Gas"
            /\ ~IsNA(r.US_PublishDate) /\ YearOf(r.US_PublishDate) >= YearCutoff
    IN  Frame(<<"Country", "DrillFor", "US_PublishDate", "Basin", "Rig Count Value">>,
              SelectSeq([i \in 1..Len(rows) |-> Row(i)], Keep))

\* country_region_map, and RoW for a country it does not list
RegionOf(country) ==
    CASE country \in {"Canada", "Mexico"} -> "North America"
      [] country \in {"France", "Spain"} -> "Europe"
      [] country \in {"Japan", "China"} -> "Asia"
      [] OTHER -> "RoW"

\* clean_imp_exp_data: the rows of 2016 and later, each with its region.
CleanImpExpData(rows) ==
    LET Row(i) ==
            LET d == ToDatetime(rows[i]["Transaction Month"])
            IN  ("Transaction Month" :> d) @@ ("Country" :> rows[i].Country)
                @@ ("Activity" :> rows[i].Activity)
                @@ ("Volume (MMCF)" :> rows[i]["Volume (MMCF)"])
                @@ ("Year" :> IF IsNA(d) THEN NaN ELSE YearOf(d))
                @@ ("Region" :> RegionOf(rows[i].Country)) @@ ("index" :> i)
        Keep(r) == ~IsNA(r.Year) /\ r.Year >= YearCutoff
    IN  Frame(<<"Transaction Month", "Country", "Activity", "Volume (MMCF)", "Year", "Region">>,
              SelectSeq([i \in 1..Len(rows) |-> Row(i)], Keep))

\* clean_production_data: the rows dated 2016 or later, Date and the columns
\* of the focus basins.
CleanProductionData(rows) ==
    LET Row(i) == ("Date" :> ToDatetime(rows[i].Date)) @@ ("Marcellus" :> rows[i].Marcellus)
                  @@ ("Permian" :> rows[i].Permian) @@ ("index" :> i)
        Keep(r) == ~IsNA(r.Date) /\ YearOf(r.Date) >= YearCutoff
    IN  Frame(<<"Date", "Marcellus", "Permian">>,
              SelectSeq([i \in 1..Len(rows) |-> Row(i)], Keep))

StorageColumns == <<"Date", "Actual Storage", "5-Year Avg", "5-Year Low", "5-Year High">>

\* clean_storage_data: the rows with an empty cell go first (an empty date
\* cell is the empty text), then Date is converted and the rows of 2016 and
\* later are kept.
CleanStorageData(rows) ==
    LET Full(r) == r.Date # "" /\ \A c \in Range(Tail(StorageColumns)) : ~IsNA(r[c])
        Row(i) == [c \in Range(Tail(StorageColumns)) |-> rows[i][c]]
                  @@ ("Date" :> ToDatetime(rows[i].Date)) @@ ("index" :> i)
        Keep(r) == Full(rows[r.index]) /\ ~IsNA(r.Date) /\ YearOf(r.Date) >= YearCutoff
    IN  Frame(StorageColumns, SelectSeq([i \in 1..Len(rows) |-> Row(i)], Keep))

----------------------------------------------------------------------------
(* The European storage loader (page5). The sheet: the country names of    *)
(* its rows, and its month columns [label, cells], a cell per country row. *)

\* 0.0353147 Bcf per million cubic metres, in units of 10^-7
BcfPerMcm == 353147

\* The name matches ^[A-Za-z -]+$
CountryNameOk(name) == name \in {"Germany", "Italy", "Czechia"}

RECURSIVE SumSeq(_)
SumSeq(q) == IF q = <<>> THEN 0 ELSE Head(q) + SumSeq(Tail(q))

MaxOf(S) == CHOOSE x \in S : \A y \in S : y <= x
\* transform("max") where transform("min") is meant
LargestOf(S) == CHOOSE x \in S : \A y \in S : y <= x
MinOf(S) == CHOOSE x \in S : \A y \in S : x <= y

\* The values of a set in ascending order.
RECURSIVE Ascending(_)
Ascending(S) == IF S = {} THEN <<>> ELSE <<MinOf(S)>> \o Ascending(S \ {MinOf(S)})

\* sum(axis=1, skipna=True)
SumSkipNa(cells) ==
    LET Number(v) == ~IsNA(v) IN SumSeq(SelectSeq(cells, Number))

\* sum(axis=1, skipna=False): NaN as soon as one cell is missing
SumKeepNa(cells) ==
    IF \E k \in DOMAIN cells : IsNA(cells[k]) THEN NaN ELSE SumSeq(cells)

\* The storage table up to the monthly totals: the rows of the countries,
\* transposed to a row per month, the months without any cell dropped, the
\* cells made numbers (times 0.0353147), and Total their sum, a missing cell
\* skipped or not as skipna says.
EuMonthlyTotals(sheet, skipna) ==
    LET kept == {k \in 1..Len(sheet.countries) : CountryNameOk(sheet.countries[k])}
        Row(i) ==
            LET m == sheet.months[i]
                cells == [k \in 1..Len(m.cells) |->
                             IF k \notin kept THEN NaN
                             ELSE IF IsNA(ToNumeric(m.cells[k])) THEN NaN
                             ELSE ToNumeric(m.cells[k]) * BcfPerMcm]
            IN  [Date |-> ToYearMonth(m.label), Total |-> IF skipna THEN SumSkipNa(cells) ELSE SumKeepNa(cells),
                 index |-> i,
                 blank |-> \A k \in kept : m.cells[k] = ""]
        NotBlank(r) == ~r.blank
        HasTotal(r) == ~IsNA(r.Total)
    IN  SelectSeq(SelectSeq([i \in 1..Len(sheet.months) |-> Row(i)], NotBlank), HasTotal)

\* The rows of the five years up to the row's own, in its month number.
SameMonthOfLastFiveYears(totals, r) ==
    {x \in Range(totals) : /\ ~IsNA(x.Date) /\ MonthOf(x.Date) = MonthOf(r.Date)
                           /\ YearOf(x.Date) <= YearOf(r.Date)
                           /\ YearOf(x.Date) > YearOf(r.Date) - 5}

\* groupby(index.month): the rows of the month number of the row, of any year.
SameMonth(totals, r) ==
    {x \in Range(totals) : ~IsNA(x.Date) /\ MonthOf(x.Date) = MonthOf(r.Date)}

\* The bands by calendar month number over all the rows, and the final
\* dropna: a row without a date has no month, so no band, and goes.
EuWithBands(totals) ==
    LET Group(r) == SameMonth(totals, r)
        Values(r) == {x.Total : x \in Group(r)}
        Sum(r) == SumSeq([n \in 1..Len(totals) |->
                            IF totals[n] \in Group(r) THEN totals[n].Total ELSE 0])
        Count(r) == Cardinality({n \in 1..Len(totals) : totals[n] \in Group(r)})
        Row(n) ==
            LET r == totals[n]
            IN  IF IsNA(r.Date)
                THEN ("Date" :> NaT) @@ ("Total" :> r.Total) @@ ("5-Year Avg" :> NaN)
                     @@ ("5-Year High" :> NaN) @@ ("5-Year Low" :> NaN) @@ ("index" :> r.index)
                ELSE ("Date" :> r.Date) @@ ("Total" :> r.Total)
                     @@ ("5-Year Avg" :> Sum(r) \div Count(r))
                     @@ ("5-Year High" :> MaxOf(Values(r)))
                     @@ ("5-Year Low" :> MinOf(Values(r))) @@ ("index" :> r.index)
    IN  DropNa(Frame(<<"Date", "Total", "5-Year Avg", "5-Year High", "5-Year Low">>,
                     [n \in 1..Len(totals) |-> Row(n)]))

\* load_eu_storage with the month's sum not skipping missing cells.
LoadEuStorageStrict(file) ==
    IF ~file.present THEN Raise("ValueError")
    ELSE Ok(EuWithBands(EuMonthlyTotals(file.rows, FALSE)))

\* load_eu_storage: the path goes to read_excel unchecked, which raises
\* ValueError on None.
LoadEuStorage(file) ==
    IF ~file.present THEN Raise("ValueError")
    ELSE Ok(EuWithBands(EuMonthlyTotals(file.rows, TRUE)))

----------------------------------------------------------------------------
(* The capacity and supply charts of page2, the yearly rig count.          *)

\* FOCUS_BASINS in the order groupby sorts them
BasinsSorted == <<"Eagle Ford", "Haynesville", "Marcellus", "Permian", "Utica", "Woodford">>

\* clean_rig_count_yearly on the rows under the header row: the rows of the
\* United States drilling for gas, the Woodford sub-basins renamed, then the
\* focus basins, the years from 2016, and Rig Count Value summed by Year and
\* Basin.
CleanRigCountYearly(rows) ==
    LET Row(i) ==
            ("Country" :> Strip(rows[i].Country)) @@ ("DrillFor" :> Strip(rows[i].DrillFor))
            @@ ("Year" :> rows[i].Year) @@ ("Basin" :> ReplaceWoodford(Strip(rows[i].Basin)))
            @@ ("Rig Count Value" :> rows[i]["Rig Count Value"])
        Keep(r) ==
            /\ r.Country = "UNITED STATES"
            /\ r.DrillFor = "Gas"
            /\ r.Basin \in FOCUS_BASINS
            /\ ~IsNA(r.Year) /\ r.Year >= YearCutoff
        df == SelectSeq([i \in 1..Len(rows) |-> Row(i)], Keep)
        years == Ascending({r.Year : r \in Range(df)})
        OfYear(y) ==
            LET Has(b) == \E r \in Range(df) : r.Year = y /\ r.Basin = b
                basins == SelectSeq(BasinsSorted, Has)
                Total(b) == SumSeq([i \in 1..Len(df) |->
                                       IF df[i].Year = y /\ df[i].Basin = b
                                       THEN df[i]["Rig Count Value"] ELSE 0])
            IN  [k \in 1..Len(basins) |->
                    ("Year" :> y) @@ ("Basin" :> basins[k]) @@ ("Rig Count Value" :> Total(basins[k]))]
    IN  Frame(<<"Year", "Basin", "Rig Count Value">>,
              Concat([n \in 1..Len(years) |-> OfYear(years[n])]))

\* The names of the supply table, after the renaming, in sorted order.
SupplyNames == <<"Africa", "Asia-Pacific", "Qatar">>

\* df_grouped of supply_area_chart: the year columns summed by Country, the
\* countries in sorted order; a missing value adds nothing.
SupplyAreaChart(df) ==
    LET Has(c) == \E r \in Range(df.rows) : r.Country = c
        names == SelectSeq(SupplyNames, Has)
        Total(c) == SumSeq([i \in 1..Len(df.rows) |->
                               IF df.rows[i].Country = c /\ ~IsNA(df.rows[i]["2024"])
                               THEN df.rows[i]["2024"] ELSE 0])
    IN  Frame(<<"Country", "2024">>,
              [k \in 1..Len(names) |-> ("Country" :> names[k]) @@ ("2024" :> Total(names[k]))])

\* The year's additions alone, without the running sum.
YearlyAdditions(rows, country) ==
    LET Counted(r) == /\ r.Country = country
                      /\ r.Status \in {"Online", "Under Construction"}
        df == SelectSeq(rows, Counted)
        years == Ascending({r.Year : r \in Range(df)} \ {NaN})
        OfYear(y) == SumSeq([i \in 1..Len(df) |->
                                IF df[i].Year = y /\ ~IsNA(df[i].MTPA) THEN df[i].MTPA ELSE 0])
    IN  [n \in 1..Len(years) |->
            ("Year" :> years[n]) @@ ("Cumulative MTPA" :> OfYear(years[n]))
            @@ ("Cumulative Bcf/d" :> OfYear(years[n]) * 131584156)]

\* 0.131584156 Bcf/d to the MTPA, in billionths
BcfdPerMtpa == 131584156

\* yearly_cumulative of us_production_chart and qatar_production_chart: the
\* projects of the country that are online or under construction, their MTPA
\* summed by Year (a project without a Year is in no group, a missing MTPA
\* adds nothing), the years ascending, the running sum over them.
YearlyCumulative(rows, country) ==
    LET Counted(r) == /\ r.Country = country
                      /\ r.Status \in {"Online", "Under Construction"}
        df == SelectSeq(rows, Counted)
        years == Ascending({r.Year : r \in Range(df)} \ {NaN})
        OfYear(y) == SumSeq([i \in 1..Len(df) |->
                                IF df[i].Year = y /\ ~IsNA(df[i].MTPA) THEN df[i].MTPA ELSE 0])
        CumSum(n) == SumSeq([k \in 1..n |-> OfYear(years[k])])
    IN  [n \in 1..Len(years) |->
            ("Year" :> years[n]) @@ ("Cumulative MTPA" :> CumSum(n))
            @@ ("Cumulative Bcf/d" :> CumSum(n) * BcfdPerMtpa)]

\* The bars of us_production_chart and of qatar_production_chart.
UsProductionChart(df) ==
    Frame(<<"Year", "Cumulative MTPA", "Cumulative Bcf/d">>, YearlyCumulative(df.rows, "United States"))
QatarProductionChart(df) ==
    Frame(<<"Year", "Cumulative MTPA", "Cumulative Bcf/d">>, YearlyCumulative(df.rows, "Qatar"))

----------------------------------------------------------------------------
(* A parser run on a sheet: the sheets the model hands to each parser.     *)

Sheets(rowset) == SeqsUpTo(rowset, MaxSheetRows)
FilesOf(rowset) == {NoFile} \cup {FileOf(q, 1) : q \in Sheets(rowset)}

ForwardCells ==
    { [sheet |-> sh, label |-> c[1], price |-> c[2]] :
        sh \in {"TTF_Curve", "NG_Curve"},
        c \in { <<"July '25", 900>>, <<"Jul-25", 900>>, <<"July '25", Text>> } }

PipelineRows ==
    { ("Country" :> "United States") @@ ("Status" :> "Online") @@ ("MTPA" :> 500)
        @@ ("First Cargo" :> "2024-01-01"),
      ("Country" :> "Qatar") @@ ("Status" :> "Proposed") @@ ("MTPA" :> 800)
        @@ ("First Cargo" :> "n/a"),
      ("Country" :> "") @@ ("Status" :> "") @@ ("MTPA" :> NaN) @@ ("First Cargo" :> "") }

\* Projects for the capacity charts, sizes in whole MTPA: two countries,
\* counted and uncounted statuses, three years, a project without a date and
\* one without a size.
ProjectRows ==
    { ("Country" :> c[1]) @@ ("Status" :> c[2]) @@ ("MTPA" :> c[3]) @@ ("First Cargo" :> c[4]) :
        c \in { <<"United States", "Online", 3, "2024-01-01">>,
                <<"United States", "Under Construction", 5, "2026-06-01">>,
                <<"United States", "Online", 1, "2015-12-01">>,
                <<"United States", "Proposed", 2, "2024-01-01">>,
                <<"United States", "Under Construction", 4, "n/a">>,
                <<"United States", "Online", NaN, "2026-06-01">>,
                <<"Qatar", "Online", 4, "2024-01-01">>,
                <<"Qatar", "Under Construction", 5, "2026-06-01">> } }

BalanceRows ==
    { ("Country" :> "Nigeria") @@ ("2024" :> 10), ("Country" :> "Qatar") @@ ("2024" :> 20),
      ("Country" :> "Mozambique") @@ ("2024" :> 5), ("Country" :> "Africa") @@ ("2024" :> 1),
      ("Country" :> "Australia") @@ ("2024" :> 7), ("Country" :> "Indonesia") @@ ("2024" :> 2),
      ("Country" :> "") @@ ("2024" :> NaN) }

RigSheetRows ==
    { ("Country" :> c[1]) @@ ("DrillFor" :> c[2]) @@ ("US_PublishDate" :> c[3])
        @@ ("Basin" :> c[4]) @@ ("Rig Count Value" :> c[5]) :
        c \in { <<"UNITED STATES", "Gas", "2024-01-01", "Permian", 5>>,
                <<"UNITED STATES ", " Gas", "n/a", "Permian", 5>>,
                <<"UNITED STATES", "Gas", "2015-12-01", "Cana Woodford", 7>>,
                <<"UNITED STATES", "Gas", "2024-01-02", "Cana Woodford", 2>>,
                <<"UNITED STATES", "Gas", "2024-01-02", "Arkoma Woodford", 3>>,
                <<"CANADA", "Gas", "2024-01-02", "Permian", 7>>,
                <<"UNITED STATES", "Oil", "2024-01-01", "Permian", 4>>,
                <<"UNITED STATES", "Oil", "n/a", "Cana Woodford", 5>> } }

YearlySheetRows ==
    { ("Country" :> c[1]) @@ ("DrillFor" :> c[2]) @@ ("Year" :> c[3])
        @@ ("Basin" :> c[4]) @@ ("Rig Count Value" :> c[5]) :
        c \in { <<"UNITED STATES", "Gas", 2024, "Cana Woodford", 2>>,
                <<"UNITED STATES", "Gas", 2024, "Arkoma Woodford", 3>>,
                <<"UNITED STATES", "Gas", 2024, "Woodford", 1>>,
                <<"UNITED STATES", "Gas", 2015, "Ardmore Woodford", 4>>,
                <<"CANADA", "Gas", 2024, "Cana Woodford", 7>>,
                <<"UNITED STATES", "Gas", 2024, "Permian", 5>>,
                <<"UNITED STATES", "Gas", 2024, "Barnett", 6>> } }

ImpExpRows ==
    { ("Transaction Month" :> c[1]) @@ ("Country" :> c[2]) @@ ("Activity" :> c[3])
        @@ ("Volume (MMCF)" :> c[4]) :
        c \in { <<"2024-01-01", "Canada", "Exports", 100>>, <<"n/a", "Japan", "Imports", 100>>,
                <<"2015-12-01", "Chad", "Exports", 200>> } }

ProductionRows ==
    { [Date |-> d, Marcellus |-> 10, Permian |-> 20] : d \in {"2024-01-01", "n/a", "2015-12-01"} }

StorageRows ==
    { ("Date" :> c[1]) @@ ("Actual Storage" :> c[2]) @@ ("5-Year Avg" :> 20)
        @@ ("5-Year Low" :> 10) @@ ("5-Year High" :> 30) :
        c \in { <<"2024-01-01", 25>>, <<"n/a", 25>>, <<"", 25>>, <<"2024-01-02", NaN>>,
                <<"2024-01-02", 35>>,
                <<"2015-12-01", 25>> } }

\* The rows of the European sheet: two countries and a row that is none.
EuCountries == <<"Germany", "Italy", "Special value">>
EuMonths ==
    { [label |-> c[1], cells |-> c[2]] :
        c \in { <<"2024-01", <<"1", "2", ":">> >>, <<"2025-01", <<"2", "2", ":">> >>,
                <<"2018-01", <<"1", ":", ":">> >>,
                <<"2025-01", <<":", "2", "1">> >>, <<"TIME", <<"1", "2", "">> >>,
                <<"2024-02", <<"", "", ":">> >> } }
EuSheets == {[countries |-> EuCountries, months |-> m] : m \in Sheets(EuMonths)}

Probe(parser, input, fault, out) ==
    [parser |-> parser, input |-> input, fault |-> fault, out |-> out]

ProbeInit == probe = Probe("", NoFile, "", EmptyFrame)

\* load_henry_hub, load_jkm, load_ttf
RunLoadPrices(src, file) ==
    /\ probe.parser = ""
    /\ probe' = Probe(src, file, "", LoadPrices(src, file))
    /\ UNCHANGED <<locVars, benchVars, rig, net>>

\* load_ttf_forward, load_hh_forward
RunLoadForward(sheet, file) ==
    /\ probe.parser = ""
    /\ probe' = Probe(sheet, file, "", LoadForward(sheet, file))
    /\ UNCHANGED <<locVars, benchVars, rig, net>>

RunLoadPipelineData(file) ==
    /\ probe.parser = ""
    /\ probe' = Probe("LNG_Production", file, LoadPipelineData(file).fault, LoadPipelineData(file).df)
    /\ UNCHANGED <<locVars, benchVars, rig, net>>

\* page2: pipeline_df = load_pipeline_data(), us_graph = us_production_chart(pipeline_df)
RunUsProductionChart(file) ==
    /\ probe.parser = ""
    /\ probe' = Probe("us_production_chart", file, "", UsProductionChart(LoadPipelineData(file).df))
    /\ UNCHANGED <<locVars, benchVars, rig, net>>

\* page2: qatar_graph = qatar_production_chart(pipeline_df)
RunQatarProductionChart(file) ==
    /\ probe.parser = ""
    /\ probe' = Probe("qatar_production_chart", file, "", QatarProductionChart(LoadPipelineData(file).df))
    /\ UNCHANGED <<locVars, benchVars, rig, net>>

\* load_balance_data; the supply table is the one kept.
RunLoadBalanceData(file) ==
    /\ probe.parser = ""
    /\ probe' = Probe("Global_LNG", file, LoadBalanceData(file).fault, LoadBalanceData(file).supply)
    /\ UNCHANGED <<locVars, benchVars, rig, net>>

RunCleanRigCountData(rows) ==
    /\ probe.parser = ""
    /\ probe' = Probe("NAM Weekly", FileOf(rows, 1), "", CleanRigCountData(rows))
    /\ UNCHANGED <<locVars, benchVars, rig, net>>

RunCleanImpExpData(rows) ==
    /\ probe.parser = ""
    /\ probe' = Probe("By Country Summary", FileOf(rows, 1), "", CleanImpExpData(rows))
    /\ UNCHANGED <<locVars, benchVars, rig, net>>

RunCleanProductionData(rows) ==
    /\ probe.parser = ""
    /\ probe' = Probe("43", FileOf(rows, 1), "", CleanProductionData(rows))
    /\ UNCHANGED <<locVars, benchVars, rig, net>>

RunCleanStorageData(rows) ==
    /\ probe.parser = ""
    /\ probe' = Probe("27", FileOf(rows, 1), "", CleanStorageData(rows))
    /\ UNCHANGED <<locVars, benchVars, rig, net>>

RunLoadEuStorage(file) ==
    /\ probe.parser = ""
    /\ probe' = Probe("EUR", file, LoadEuStorage(file).fault, LoadEuStorage(file).df)
    /\ UNCHANGED <<locVars, benchVars, rig, net>>

\* The table goes out of use.
Discard ==
    /\ probe.parser # ""
    /\ probe' = Probe("", NoFile, "", EmptyFrame)
    /\ UNCHANGED <<locVars, benchVars, rig, net>>

\* The files of the benchmark sources and of the forward-curve workbook.
\* The files of the data directory, and the sheets downloaded at import.
FileSources == Sources \cup {"TTFCurve1", "LNG_Production", "Global_LNG", "EUR"}
Downloads == {"NAM Weekly", "43", "By Country Summary", "27"}
AllSources == FileSources \cup Downloads
\* The downloads in the order the imports of Nat_Gas_Dashboard reach them:
\* the two of page3, the one of page4, the one of page5.
DownloadOrder == <<"NAM Weekly", "43", "By Country Summary", "27">>
PlaceOf(d) == CHOOSE i \in 1..Len(DownloadOrder) : DownloadOrder[i] = d
\* No request made, none failed.
NoGets == [gets |-> [d \in Downloads |-> 0], failed |-> "", error |-> "", tick |-> ""]

Paths == {"/", "/pipelines", "/rigs", "/lng", "/storage"}
NoChart == [rows |-> <<>>, stamp |-> 0]
\* What a layout shows: the benchmark chart with its time stamp, the price
\* tables, and the rows of its other figures.
Content(figure, table, figures) == [chart |-> figure, table |-> table, figures |-> figures]
NoContent == Content(NoChart, <<>>, <<>>)
Shown(pathname, content) ==
    [path |-> pathname, chart |-> content.chart, table |-> content.table,
     figures |-> content.figures]

LocIdle == dir = <<>> /\ call = NoCall
BenchIdle ==
    /\ files = [s \in AllSources |-> NoFile]
    /\ phase = "setup"
    /\ benchmark_df = EmptyFrame
    /\ price_table = <<>>
    /\ chart = NoChart
    /\ layout = [p \in Paths |-> NoContent]
    /\ page_content = Shown("", NoContent)
    /\ net = NoGets
ProbeIdle == ProbeInit
RigIdle == rig = [rows |-> <<>>, monthly |-> <<>>, out |-> EmptyFrame, fault |-> "", ran |-> FALSE]

TotalRows == Len(files["HenryHub"].rows) + Len(files["JKM"].rows) + Len(files["TTF_Daily"].rows)

\* A file of the source appears in the data directory, still without rows.
PutFile(src) ==
    /\ phase = "setup"
    /\ ~files[src].present
    /\ files' = [files EXCEPT ![src] = FileOf(<<>>, 1)]
    /\ UNCHANGED <<phase, benchmark_df, price_table, chart, layout, page_content, locVars, probe, rig, net>>

AppendRow(src, row) ==
    /\ phase = "setup"
    /\ files[src].present
    /\ TotalRows < MaxRows
    /\ files' = [files EXCEPT ![src].rows = Append(@, row)]
    /\ UNCHANGED <<phase, benchmark_df, price_table, chart, layout, page_content, locVars, probe, rig, net>>

\* A call of get_benchmark_prices_daily on the files as they are.
RunGetBenchmark ==
    /\ phase = "setup"
    /\ benchmark_df' = GetBenchmarkPricesDaily(files)
    /\ phase' = "merged"
    /\ UNCHANGED <<files, price_table, chart, layout, page_content, locVars, probe, rig, net>>

LocatorInit == LocInit /\ BenchIdle /\ ProbeIdle /\ RigIdle

SpecLocator == LocatorInit /\ [][LocNext]_vars

MergeInit == LocIdle /\ BenchIdle /\ ProbeIdle /\ RigIdle

MergeNext ==
    \/ \E src \in Sources : PutFile(src)
    \/ \E src \in Sources : \E row \in RawRows(src) : AppendRow(src, row)
    \/ RunGetBenchmark

SpecMerge == MergeInit /\ [][MergeNext]_vars

ParseInit == LocIdle /\ BenchIdle /\ ProbeInit /\ RigIdle


----------------------------------------------------------------------------
(* The merge of the benchmark prices, against the files it was made from.  *)

Dates == {ToDatetime(d) : d \in DateTexts} \ {NaT}

\* The source's file holds a row with date d whose price cell is a number.
ValidAt(src, d) ==
    \E r \in Range(files[src].rows) :
        ToDatetime(r.Date) = d /\ ~IsNA(ToNumeric(r[PriceColumn(src)]))

DatesOf(df) == {r.Date : r \in Range(df.rows)}

\* C3: the merged table has a row for date d if and only if Henry Hub, JKM
\* and TTF all have a valid value at d; so its dates lie in the intersection
\* of the three inputs' dates, and every row is complete.
C3_RowIffAllThree ==
    phase = "merged" =>
        /\ \A d \in Dates : d \in DatesOf(benchmark_df) <=> \A src \in Sources : ValidAt(src, d)
        /\ DatesOf(benchmark_df) \subseteq Dates
        /\ \A r \in Range(benchmark_df.rows) : \A src \in Sources : ~IsNA(r[ValueColumn(src)])

\* A date all three sources have is kept while another date, which only
\* some of them have, is dropped.
C3_Witness ==
    /\ phase = "merged"
    /\ \E d \in Dates : d \in DatesOf(benchmark_df)
    /\ \E d \in Dates : d \notin DatesOf(benchmark_df) /\ \E src \in Sources : ValidAt(src, d)

RowSet(df) == Range(df.rows)

Loaded(src) == LoadPrices(src, files[src])

Orders ==
    {o \in [1..3 -> Sources] : \A i, j \in 1..3 : o[i] = o[j] => i = j}

\* C4: joining the three series on Date in any order and with either
\* grouping, then dropping the rows with a missing value, gives the same
\* set of rows (a row being its cells by column name).
C4_MergeOrderIndependent ==
    phase = "merged" =>
        \A o \in Orders :
            LET a == Loaded(o[1])
                b == Loaded(o[2])
                c == Loaded(o[3])
            IN  /\ RowSet(DropNa(Merge(Merge(a, b, "Date"), c, "Date"))) = RowSet(benchmark_df)
                /\ RowSet(DropNa(Merge(a, Merge(b, c, "Date"), "Date"))) = RowSet(benchmark_df)

\* A merge of several rows, one source holding the same date twice.
C4_Witness ==
    /\ phase = "merged"
    /\ Len(benchmark_df.rows) >= 2
    /\ Cardinality(RowSet(benchmark_df)) >= 2

\* The series of the source is empty: no file, or no row that survives.
EmptySeries(src) ==
    \A r \in Range(files[src].rows) :
        IsNA(ToDatetime(r.Date)) \/ IsNA(ToNumeric(r[PriceColumn(src)]))

\* C5: when one of the three input series is empty (the fallback table of a
\* missing file included), the merged table has no rows.
C5_EmptyInputEmptyResult ==
    phase = "merged" /\ (\E src \in Sources : EmptySeries(src)) => benchmark_df.rows = <<>>

\* One file is missing while the two other sources have valid rows.
C5_Witness ==
    /\ phase = "merged"
    /\ \E src \in Sources :
          /\ ~files[src].present
          /\ \A other \in Sources \ {src} : \E d \in Dates : ValidAt(other, d)

----------------------------------------------------------------------------
(* The parsers against the sheets they were given.                         *)

ForwardSheets == {"TTF_Curve", "NG_Curve"}
\* The parsers that keep a row whose date did not parse.
DateKeepers == ForwardSheets \cup {"LNG_Production"}

\* The rows of the parser's input whose date cell does not parse.
BadDateRows(pr) ==
    LET rows == pr.input.rows
        Bad(Parse(_), column) == {i \in 1..Len(rows) : IsNA(Parse(rows[i][column]))}
    IN  CASE ~pr.input.present -> {}
          [] pr.parser \in Sources \cup {"43", "27"} -> Bad(ToDatetime, "Date")
          [] pr.parser \in ForwardSheets ->
                {i \in Bad(ParseMonthLabel, "label") : rows[i].sheet = pr.parser}
          [] pr.parser = "LNG_Production" -> Bad(ToDatetime, "First Cargo")
          [] pr.parser = "NAM Weekly" -> Bad(ToDatetime, "US_PublishDate")
          [] pr.parser = "By Country Summary" -> Bad(ToDatetime, "Transaction Month")
          [] pr.parser = "EUR" ->
                {i \in 1..Len(rows.months) : IsNA(ToYearMonth(rows.months[i].label))}
          [] OTHER -> {}

RowOf(pr, i) == {r \in Range(pr.out.rows) : r.index = i}

BadNumberRows(pr) ==
    LET rows == pr.input.rows
    IN  CASE ~pr.input.present -> {}
          [] pr.parser \in Sources ->
                {i \in 1..Len(rows) : IsNA(ToNumeric(rows[i][PriceColumn(pr.parser)]))}
          [] pr.parser \in ForwardSheets ->
                {i \in 1..Len(rows) : rows[i].sheet = pr.parser /\ rows[i].price = Text}
          [] pr.parser = "EUR" ->
                {i \in 1..Len(rows.months) :
                    \E k \in 1..Len(rows.countries) :
                        /\ CountryNameOk(rows.countries[k])
                        /\ IsNA(ToNumeric(rows.months[i].cells[k]))}
          [] OTHER -> {}

NumericTotal(sheet, i) ==
    SumSeq([k \in 1..Len(sheet.countries) |->
               IF CountryNameOk(sheet.countries[k]) /\ ~IsNA(ToNumeric(sheet.months[i].cells[k]))
               THEN ToNumeric(sheet.months[i].cells[k]) * BcfPerMcm ELSE 0])

BlankMonth(sheet, i) ==
    \A k \in 1..Len(sheet.countries) :
        CountryNameOk(sheet.countries[k]) => sheet.months[i].cells[k] = ""

FileBacked == Sources \cup ForwardSheets \cup {"LNG_Production", "Global_LNG", "EUR"}

\* The columns the code after the loader reads from its table.
ExpectedColumns(parser) ==
    CASE parser \in Sources -> {"Date", ValueColumn(parser)}
      [] parser \in ForwardSheets -> {"Date", ForwardColumn(parser)}
      [] OTHER -> {}

\* C8: a file-backed loader that finds no file either returns an empty table
\* with the columns the code after it expects, Date included, or raises a
\* file-not-found fault.
C8_EmptyTableOrFileNotFound ==
    probe.parser \in FileBacked /\ ~probe.input.present =>
        \/ /\ probe.fault = ""
           /\ probe.out.rows = <<>>
           /\ ExpectedColumns(probe.parser) \subseteq Range(probe.out.columns)
        \/ probe.fault = "FileNotFoundError"

----------------------------------------------------------------------------
(* The process: the import of the pages, display_page and update_chart.    *)

\* The two editions of each source that the process meets.
Edition(src, v) ==
    CASE src = "HenryHub" ->
            <<PriceRow(src, "2024-01-01", IF v = 1 THEN "2.00" ELSE "3.00")>>
      [] src = "JKM" ->
            <<PriceRow(src, "2024-01-01", "12.00")>>
            \o (IF v = 1 THEN <<>> ELSE <<PriceRow(src, "2024-01-02", "12.00")>>)
      [] src = "TTF_Daily" ->
            IF v = 1 THEN <<PriceRow(src, "2024-01-01", "30.00")>> ELSE <<>>
      [] src = "TTFCurve1" ->
            << [sheet |-> "TTF_Curve", label |-> "July '25", price |-> IF v = 1 THEN 900 ELSE 1000],
               [sheet |-> "NG_Curve", label |-> "July '25", price |-> 300] >>
      [] src = "LNG_Production" ->
            << ("Country" :> "United States") @@ ("Status" :> "Online")
               @@ ("MTPA" :> IF v = 1 THEN 500 ELSE 800) @@ ("First Cargo" :> "2024-01-01") >>
      [] src = "Global_LNG" ->
            [supply |-> << ("Country" :> "Nigeria") @@ ("2024" :> IF v = 1 THEN 10 ELSE 20) >>,
             demand |-> << ("Country" :> "Japan") @@ ("2024" :> 10) >>]
      [] src = "NAM Weekly" ->
            << ("Country" :> "UNITED STATES") @@ ("DrillFor" :> "Gas")
               @@ ("US_PublishDate" :> "2024-01-01") @@ ("Basin" :> "Permian")
               @@ ("Rig Count Value" :> IF v = 1 THEN 5 ELSE 7) >>
      [] src = "43" ->
            << [Date |-> "2024-01-01", Marcellus |-> IF v = 1 THEN 10 ELSE 20, Permian |-> 20] >>
      [] src = "By Country Summary" ->
            << ("Transaction Month" :> "2024-01-01") @@ ("Country" :> "Canada")
               @@ ("Activity" :> "Exports") @@ ("Volume (MMCF)" :> IF v = 1 THEN 100 ELSE 200) >>
      [] src = "27" ->
            << ("Date" :> "2024-01-01") @@ ("Actual Storage" :> IF v = 1 THEN 25 ELSE 30)
               @@ ("5-Year Avg" :> 20) @@ ("5-Year Low" :> 10) @@ ("5-Year High" :> 30) >>
      [] OTHER ->
            [countries |-> EuCountries,
             months |-> << [label |-> "2024-01",
                            cells |-> <<IF v = 1 THEN "1" ELSE "2", "2", ":">>] >>]

\* f"${x:.2f}" of an amount in hundredths of a cent: the sign, the dollars
\* and the cents of the nearest cent. (An amount just between two cents goes
\* where its binary fraction lies; the amounts of the model avoid them.)
Money4(x) ==
    LET a == IF x < 0 THEN 0 - x ELSE x
        c == (a + 50) \div 100
    IN  <<IF x < 0 THEN "-" ELSE "", c \div 100, c % 100>>

\* f"${x:.2f}" of an amount in cents
Money(v) == Money4(v * 100)

\* shipping, regas and liquefaction to Europe and to Asia, in cents, and the
\* 1.15 that Henry Hub is multiplied by, in hundredths: a price in cents
\* times it is an amount in hundredths of a cent.
TtfShipping == 70
TtfRegas == 35
JkmShipping == 220
JkmRegas == 50
Liquefaction == 275
HhUplift == 115
Uplifted(hh) == hh * HhUplift

\* A latest row that stands for "no data" when the table has no row.
LatestRowsOrNoData(df) ==
    IF df.rows = <<>>
    THEN {("Date" :> NaT) @@ ("Henry Hub" :> 0) @@ ("TTF (USD)" :> 0) @@ ("JKM" :> 0)}
    ELSE {r \in Range(df.rows) : \A x \in Range(df.rows) : x.Date <= r.Date}

\* df.sort_values("Date", ascending=False).iloc[0]: a row of the latest
\* date; none for a table without rows, where .iloc[0] is an IndexError.
LatestRows(df) == {r \in Range(df.rows) : \A x \in Range(df.rows) : x.Date <= r.Date}

CreateBenchmarkPriceChart(df) == df.rows

CreateSpotPriceTable(latest) ==
    << [Benchmark |-> "Henry Hub", Price |-> Money(latest["Henry Hub"])],
       [Benchmark |-> "TTF", Price |-> Money(latest["TTF (USD)"])],
       [Benchmark |-> "JKM", Price |-> Money(latest["JKM"])] >>

SpreadTable(price, hh, shipping, regas) ==
    LET spread_less_var == price * 100 - Uplifted(hh) - shipping * 100 - regas * 100
        spread_less_all_in == spread_less_var - Liquefaction * 100
    IN  << [spread |-> Money(price - hh),
            variable_cost |-> Money4(spread_less_var),
            all_in_cost |-> Money4(spread_less_all_in)] >>

CreateTtfSpreadTable(latest) ==
    SpreadTable(latest["TTF (USD)"], latest["Henry Hub"], TtfShipping, TtfRegas)

\* The JKM table with the costs of the route to Europe.
CreateJkmSpreadWithTtfCosts(latest) ==
    SpreadTable(latest["JKM"], latest["Henry Hub"], TtfShipping, TtfRegas)

CreateJkmSpreadTable(latest) ==
    SpreadTable(latest["JKM"], latest["Henry Hub"], JkmShipping, JkmRegas)

\* get_last_modified_time: the latest st_mtime of the files whose names hold
\* HenryHub, JKM or TTF; 0 is "No files found".
GetLastModifiedTime(fs) ==
    LET found == {s \in Sources \cup {"TTFCurve1"} : fs[s].present}
    IN  IF found = {} THEN 0 ELSE MaxOf({fs[s].mtime : s \in found})

\* plot_ttf_vs_us_export_costs: the three lines of the figure, the two cost
\* lines in hundredths of a cent; a price that is text cannot be multiplied.
PlotTtfVsUsExportCosts(df) ==
    IF \E r \in Range(df.rows) : r["HH_Forward_Price"] = Text THEN Raise("TypeError")
    ELSE LET Line(r) ==
                 LET variable == Uplifted(r["HH_Forward_Price"])
                                 + TtfShipping * 100 + TtfRegas * 100
                 IN  [Date |-> r.Date, TTF_Forward_Price |-> r["TTF_Forward_Price"],
                      Variable_Cost |-> variable, All_In_Cost |-> variable + Liquefaction * 100]
         IN  Ok(Frame(<<"Date", "TTF_Forward_Price", "Variable_Cost", "All_In_Cost">>,
                      [i \in 1..Len(df.rows) |-> Line(df.rows[i])]))

\* The module-level code of page1 .. page5, run in the order of the imports
\* of Nat_Gas_Dashboard on the files fs: the fault that ends the import, or
\* the values the modules hold after it.
Builds(fs) ==
    LET bench == GetBenchmarkPricesDaily(fs)
        forward_curves == MergeInner(LoadForward("TTF_Curve", fs["TTFCurve1"]),
                                     LoadForward("NG_Curve", fs["TTFCurve1"]), "Date")
        ttf_forward_chart == PlotTtfVsUsExportCosts(forward_curves.df)
        pipeline_df == LoadPipelineData(fs["LNG_Production"])
        balance == LoadBalanceData(fs["Global_LNG"])
        eu_storage_df == LoadEuStorage(fs["EUR"])
        fault == CASE forward_curves.fault # "" -> forward_curves.fault
                   [] ttf_forward_chart.fault # "" -> ttf_forward_chart.fault
                   [] LatestRows(bench) = {} -> "IndexError"
                   [] pipeline_df.fault # "" -> pipeline_df.fault
                   [] balance.fault # "" -> balance.fault
                   [] eu_storage_df.fault # "" -> eu_storage_df.fault
                   [] OTHER -> ""
        \* The page whose import raises it.
        page == CASE forward_curves.fault # "" \/ ttf_forward_chart.fault # ""
                         \/ LatestRows(bench) = {} -> 1
                  [] pipeline_df.fault # "" \/ balance.fault # "" -> 2
                  [] eu_storage_df.fault # "" -> 5
                  [] OTHER -> 0
        figure == [rows |-> CreateBenchmarkPriceChart(bench), stamp |-> GetLastModifiedTime(fs)]
        Held(latest) ==
            [fault |-> "", page |-> 0,
             benchmark_df |-> bench,
             price_table |-> CreateSpotPriceTable(latest),
             chart |-> figure,
             layout |->
                 ("/" :> Content(figure,
                                 CreateSpotPriceTable(latest) \o CreateTtfSpreadTable(latest)
                                     \o CreateJkmSpreadTable(latest),
                                 ttf_forward_chart.df.rows))
                 @@ ("/pipelines" :> Content(NoChart, <<>>,
                                             pipeline_df.df.rows \o balance.supply.rows
                                                 \o balance.demand.rows))
                 @@ ("/rigs" :> Content(NoChart, <<>>,
                                        CleanRigCountData(fs["NAM Weekly"].rows).rows
                                            \o CleanProductionData(fs["43"].rows).rows))
                 @@ ("/lng" :> Content(NoChart, <<>>,
                                       CleanImpExpData(fs["By Country Summary"].rows).rows))
                 @@ ("/storage" :> Content(NoChart, <<>>,
                                           CleanStorageData(fs["27"].rows).rows
                                               \o eu_storage_df.df.rows))]
    IN  IF fault # ""
        THEN {[fault |-> fault, page |-> page, benchmark_df |-> bench, price_table |-> <<>>,
               chart |-> NoChart, layout |-> [p \in Paths |-> NoContent]]}
        ELSE {Held(latest) : latest \in LatestRows(bench)}

\* The file a download function leaves at its path, and the copy of it that
\* an earlier run of the process left there.
Downloaded(d) == FileOf(Edition(d, 1), 1)
SavedCopy(d) == FileOf(Edition(d, 2), 1)

\* The files after the first n downloads of the import have returned: each
\* wrote the content of its response over the file at its path.
Fetched(fs, n) ==
    [s \in AllSources |->
        IF s \in Downloads /\ PlaceOf(s) <= n THEN Downloaded(s) ELSE fs[s]]

\* One GET for each of the first n downloads, none for the others.
GetsUpTo(n) == [d \in Downloads |-> IF PlaceOf(d) <= n THEN 1 ELSE 0]

\* An import that catches the fault of a page and starts the server with the
\* layouts it has.
ImportSkipsFaultyPage ==
    /\ phase = "boot"
    /\ \E b \in Builds(Fetched(files, Len(DownloadOrder))) :
          /\ files' = Fetched(files, Len(DownloadOrder))
          /\ net' = [gets |-> GetsUpTo(Len(DownloadOrder)), failed |-> "", error |-> "", tick |-> ""]
          /\ phase' = "serving"
          /\ benchmark_df' = b.benchmark_df
          /\ price_table' = b.price_table
          /\ chart' = b.chart
          /\ layout' = b.layout
    /\ UNCHANGED <<page_content, locVars, probe, rig>>

\* The process starts: the imports of Nat_Gas_Dashboard.py run the
\* module-level code of the pages, once, and every request made is answered
\* with the file. A fault of page1 or page2 ends the import before the first
\* download; the pipelines of page3 .. page5 read the files just written.
Import ==
    /\ phase = "boot"
    /\ \E b \in Builds(Fetched(files, Len(DownloadOrder))) :
          LET n == IF b.page \in {1, 2} THEN 0 ELSE Len(DownloadOrder)
          IN  /\ files' = Fetched(files, n)
              /\ net' = [gets |-> GetsUpTo(n), failed |-> "", error |-> "", tick |-> ""]
              /\ IF b.fault = ""
                 THEN /\ phase' = "serving"
                      /\ benchmark_df' = b.benchmark_df
                      /\ price_table' = b.price_table
                      /\ chart' = b.chart
                      /\ layout' = b.layout
                 ELSE /\ phase' = "failed"
                      /\ UNCHANGED <<benchmark_df, price_table, chart, layout>>
    /\ UNCHANGED <<page_content, locVars, probe, rig>>

\* A download that, when its request fails, returns the path all the same:
\* the import goes on and reads whatever an earlier run saved there.
DownloadFallsBack(d, error) ==
    /\ phase = "boot"
    /\ \E b \in Builds([Fetched(files, Len(DownloadOrder)) EXCEPT ![d] = files[d]]) :
          /\ b.fault = ""
          /\ files' = [Fetched(files, Len(DownloadOrder)) EXCEPT ![d] = files[d]]
          /\ net' = [gets |-> GetsUpTo(Len(DownloadOrder)), failed |-> d, error |-> error, tick |-> ""]
          /\ phase' = "serving"
          /\ benchmark_df' = b.benchmark_df
          /\ price_table' = b.price_table
          /\ chart' = b.chart
          /\ layout' = b.layout
    /\ UNCHANGED <<page_content, locVars, probe, rig>>

\* A download that opens its file for writing before it makes the request:
\* the file is there and empty when the request fails.
DownloadTruncatesFirst(d, error) ==
    /\ phase = "boot"
    /\ \A b \in Builds(Fetched(files, Len(DownloadOrder))) : b.page \notin {1, 2}
    /\ files' = [Fetched(files, PlaceOf(d) - 1) EXCEPT ![d] = FileOf(<<>>, 1)]
    /\ net' = [gets |-> GetsUpTo(PlaceOf(d)), failed |-> d, error |-> error, tick |-> ""]
    /\ phase' = "failed"
    /\ UNCHANGED <<benchmark_df, price_table, chart, layout, page_content,
                   locVars, probe, rig>>

\* The import where the download d fails: requests.get raises
\* (ConnectionError) or raise_for_status does (HTTPError). page1 and page2
\* were imported, the downloads before d wrote their files, d made its one
\* request and wrote nothing, and the exception ends the import.
DownloadFails(d, error) ==
    /\ phase = "boot"
    /\ \A b \in Builds(Fetched(files, Len(DownloadOrder))) : b.page \notin {1, 2}
    /\ files' = Fetched(files, PlaceOf(d) - 1)
    /\ net' = [gets |-> GetsUpTo(PlaceOf(d)), failed |-> d, error |-> error, tick |-> ""]
    /\ phase' = "failed"
    /\ UNCHANGED <<benchmark_df, price_table, chart, layout, page_content,
                   locVars, probe, rig>>

Clock(fs) == MaxOf({fs[s].mtime : s \in AllSources})

\* A newer file of the source is written while the process serves.
ReplaceFile(src) ==
    /\ phase = "serving"
    /\ Clock(files) < MaxTime
    /\ files' = [files EXCEPT ![src] = FileOf(Edition(src, 2), Clock(files) + 1)]
    /\ UNCHANGED <<phase, benchmark_df, price_table, chart, layout, page_content,
                   locVars, probe, rig, net>>

\* display_page as if it ran the module-level code again.
DisplayPageRecomputed(pathname) ==
    /\ phase = "serving"
    /\ \E b \in Builds(files) :
          page_content' = IF pathname \in Paths THEN Shown(pathname, b.layout[pathname])
                          ELSE Shown("404", NoContent)
    /\ UNCHANGED <<files, phase, benchmark_df, price_table, chart, layout, locVars, probe, rig, net>>

\* display_page: the layout object of the page's module, or the 404 heading.
DisplayPage(pathname) ==
    /\ phase = "serving"
    /\ page_content' = IF pathname \in Paths THEN Shown(pathname, layout[pathname])
                       ELSE Shown("404", NoContent)
    /\ UNCHANGED <<files, phase, benchmark_df, price_table, chart, layout, locVars, probe, rig, net>>

\* A tick that builds the price tables again as well.
UpdateChartAndTables ==
    /\ phase = "serving"
    /\ page_content.path = "/"
    /\ LET df == GetBenchmarkPricesDaily(files)
       IN  \E latest \in LatestRowsOrNoData(df) :
              page_content' =
                  [page_content EXCEPT
                      !.chart = [rows |-> CreateBenchmarkPriceChart(df),
                                 stamp |-> GetLastModifiedTime(files)],
                      !.table = CreateSpotPriceTable(latest) \o CreateTtfSpreadTable(latest)
                                    \o CreateJkmSpreadTable(latest)]
    /\ net' = [net EXCEPT !.tick = "returned"]
    /\ UNCHANGED <<files, phase, benchmark_df, price_table, chart, layout, locVars, probe, rig>>

\* update_chart, on a tick of the interval of the page1 layout: the figure and
\* the time stamp of the page in the browser are replaced.
UpdateChart ==
    /\ phase = "serving"
    /\ page_content.path = "/"
    /\ page_content' =
          [page_content EXCEPT
              !.chart = [rows |-> CreateBenchmarkPriceChart(GetBenchmarkPricesDaily(files)),
                         stamp |-> GetLastModifiedTime(files)]]
    /\ net' = [net EXCEPT !.tick = "returned"]
    /\ UNCHANGED <<files, phase, benchmark_df, price_table, chart, layout, locVars, probe, rig>>

\* A fault of update_chart that ends the process and blanks the page.
UpdateChartRaisesAndStops(error) ==
    /\ phase = "serving"
    /\ page_content.path = "/"
    /\ net' = [net EXCEPT !.tick = error]
    /\ phase' = "failed"
    /\ page_content' = Shown("", NoContent)
    /\ UNCHANGED <<files, benchmark_df, price_table, chart, layout, locVars, probe, rig>>

\* update_chart on a tick where a read raises (a file taken away between
\* the glob and the read, or written without its columns): the function has
\* no handler, the exception leaves it and no figure or time stamp is
\* returned; the dispatcher of Dash answers the request of the tick with an
\* error, the page keeps what it shows and the process goes on.
UpdateChartRaises(error) ==
    /\ phase = "serving"
    /\ page_content.path = "/"
    /\ net' = [net EXCEPT !.tick = error]
    /\ UNCHANGED <<files, phase, benchmark_df, price_table, chart, layout, page_content,
                   locVars, probe, rig>>

\* The files at the start of the process: each file of the data directory is
\* there or not, and so is the copy of each download that an earlier run saved.
ServeInit ==
    /\ \E there \in SUBSET FileSources : \E saved \in SUBSET Downloads :
          files = [s \in AllSources |->
                      IF s \in there THEN FileOf(Edition(s, 1), 1)
                      ELSE IF s \in saved THEN SavedCopy(s) ELSE NoFile]
    /\ net = NoGets
    /\ phase = "boot"
    /\ benchmark_df = EmptyFrame
    /\ price_table = <<>>
    /\ chart = NoChart
    /\ layout = [p \in Paths |-> NoContent]
    /\ page_content = Shown("", NoContent)
    /\ LocIdle /\ ProbeIdle /\ RigIdle

ServeNext ==
    \/ Import
    \/ \E d \in Downloads : \E error \in {"ConnectionError", "HTTPError"} : DownloadFails(d, error)
    \/ \E src \in AllSources : ReplaceFile(src)
    \/ \E pathname \in Paths \cup {"/nowhere"} : DisplayPage(pathname)
    \/ UpdateChart
    \/ \E error \in {"FileNotFoundError", "KeyError"} : UpdateChartRaises(error)

SpecServe == ServeInit /\ [][ServeNext]_vars

----------------------------------------------------------------------------
(* What a page load and a tick show, against the files on disk.            *)

----------------------------------------------------------------------------
(* The rig-count summary: get_most_recent_date and prep_data_for_graph.    *)

\* A percentage: a number, no value (NaN), or infinite.
NoValue == [kind |-> "nan", v |-> 0]
Infinite == [kind |-> "inf", v |-> 0]
Num(x) == [kind |-> "num", v |-> x]

\* The change taken against the current value instead of the previous one.
PctOfCurrent(prev, cur) ==
    IF cur = 0 THEN (IF prev = 0 THEN NoValue ELSE Infinite)
    ELSE Num(((cur - prev) * 100) \div cur)

\* (cur / prev - 1) * 100 in floating point: 0 / 0 is NaN, x / 0 infinite
PctChange(prev, cur) ==
    IF prev = 0 THEN (IF cur = 0 THEN NoValue ELSE Infinite)
    ELSE Num(((cur - prev) * 100) \div prev)

InFocus(r) == r.Basin \in FOCUS_BASINS

\* ["Rig Count Value"].sum()
RigCount(rows) == SumSeq([i \in 1..Len(rows) |-> rows[i]["Rig Count Value"]])

\* groupby(["Month", "Basin"], as_index=False)["Rig Count Value"].sum()
MonthlyTotals(rows) ==
    LET OfMonth(m) ==
            LET Has(b) == \E r \in Range(rows) : MonthStart(r.US_PublishDate) = m /\ r.Basin = b
                basins == SelectSeq(BasinsSorted, Has)
                Group(k) ==
                    LET In(r) == MonthStart(r.US_PublishDate) = m /\ r.Basin = basins[k]
                    IN  ("Month" :> m) @@ ("Basin" :> basins[k])
                        @@ ("Rig Count Value" :> RigCount(SelectSeq(rows, In)))
            IN  [k \in 1..Len(basins) |-> Group(k)]
        months == Ascending({MonthStart(r.US_PublishDate) : r \in Range(rows)})
    IN  Concat([n \in 1..Len(months) |-> OfMonth(months[n])])

\* df_monthly with a pct_change that is not grouped: against the row above.
DfMonthlyUngrouped(rows) ==
    LET totals == MonthlyTotals(rows)
        Change(k) == IF k = 1 THEN NoValue
                     ELSE PctChange(totals[k - 1]["Rig Count Value"], totals[k]["Rig Count Value"])
    IN  [k \in 1..Len(totals) |-> totals[k] @@ ("MoM % Change" :> Change(k))]

\* df_monthly: the monthly totals, each with its change against the row of
\* the same basin before it (groupby("Basin").pct_change() * 100).
DfMonthly(rows) ==
    LET totals == MonthlyTotals(rows)
        Before(k) == {j \in 1..(k - 1) : totals[j].Basin = totals[k].Basin}
        Change(k) == IF Before(k) = {} THEN NoValue
                     ELSE PctChange(totals[MaxOf(Before(k))]["Rig Count Value"],
                                    totals[k]["Rig Count Value"])
    IN  [k \in 1..Len(totals) |-> totals[k] @@ ("MoM % Change" :> Change(k))]

\* get_most_recent_date
GetMostRecentDate(rows) ==
    LET Latest(r) == \A x \in Range(rows) : x.US_PublishDate <= r.US_PublishDate
    IN  SelectSeq(rows, Latest)

\* pd.DateOffset(years=1) and timedelta(days=3), on yyyymmdd
YearBack == 10000
PriorWindowDays == 3

\* The rows of the basin within three days of the date a year before.
InPriorWindow(r, basin, current_date) ==
    /\ r.Basin = basin
    /\ r.US_PublishDate >= current_date - YearBack - PriorWindowDays
    /\ r.US_PublishDate <= current_date - YearBack + PriorWindowDays

\* The count of the one row of the window nearest to the date a year before.
PriorYearOfNearestRow(all, basin, current_date) ==
    LET window == {i \in 1..Len(all) : InPriorWindow(all[i], basin, current_date)}
        Off(i) == LET d == all[i].US_PublishDate - (current_date - YearBack)
                  IN  IF d < 0 THEN 0 - d ELSE d
        nearest == CHOOSE i \in window : \A j \in window : Off(i) <= Off(j)
    IN  IF window = {} THEN NaN ELSE all[nearest]["Rig Count Value"]

\* df_prior_grouped, as the left merge reads it for a basin: the sum of Rig
\* Count Value over the rows of the window, NaN for a basin without a row.
PriorYearRigCount(all, basin, current_date) ==
    LET PriorOf(r) == InPriorWindow(r, basin, current_date)
    IN  IF \E r \in Range(all) : PriorOf(r) THEN RigCount(SelectSeq(all, PriorOf)) ELSE NaN

\* prep_data_for_graph: the rows of the latest date by basin, with the total
\* of the week a year before, the change against it, and the change of the
\* current month against the month before; .iloc[0] of no rows is an
\* IndexError.
PrepDataForGraph(df_all, df_latest) ==
    LET all == SelectSeq(df_all, InFocus)
        latest == SelectSeq(df_latest, InFocus)
        df_monthly == DfMonthly(all)
    IN  IF latest = <<>>
        THEN [fault |-> "IndexError", monthly |-> df_monthly, df |-> EmptyFrame]
        ELSE
        LET current_month == MonthStart(MaxOf({r.US_PublishDate : r \in Range(latest)}))
            current_date == latest[1].US_PublishDate
            HasLatest(b) == \E r \in Range(latest) : r.Basin = b
            basins == SelectSeq(BasinsSorted, HasLatest)
            Row(b) ==
                LET Of(r) == r.Basin = b
                    prior == PriorYearRigCount(all, b, current_date)
                    now == RigCount(SelectSeq(latest, Of))
                    mom == {r \in Range(df_monthly) : r.Month = current_month /\ r.Basin = b}
                IN  ("Basin" :> b) @@ ("Rig Count Value" :> now)
                    @@ ("Prior Year Rig Count" :> prior)
                    @@ ("YoY % Change" :> IF prior = NaN THEN NoValue ELSE PctChange(prior, now))
                    @@ ("MoM % Change" :>
                            IF mom = {} THEN NoValue ELSE (CHOOSE r \in mom : TRUE)["MoM % Change"])
        IN  [fault |-> "", monthly |-> df_monthly,
             df |-> Frame(<<"Basin", "Rig Count Value", "Prior Year Rig Count",
                            "YoY % Change", "MoM % Change">>,
                          [k \in 1..Len(basins) |-> Row(basins[k])])]

\* The rows of df_rig_all the model draws from: weeks of two months and of
\* the year before, two focus basins and one that is none. No row lies in
\* the last three days of a month or of a year, so that the comparison of
\* yyyymmdd numbers places every row against the prior-year window as the
\* comparison of the dates does.
RigRows ==
    { ("US_PublishDate" :> c[1]) @@ ("Basin" :> c[2]) @@ ("Rig Count Value" :> c[3]) :
        c \in { <<20240105, "Permian", 4>>, <<20240112, "Permian", 6>>, <<20240209, "Permian", 5>>,
                <<20240105, "Permian", 0>>, <<20230210, "Permian", 4>>,
                <<20230208, "Permian", 2>>, <<20240126, "Permian", 5>>, <<20240202, "Permian", 7>>,
                <<20240105, "Marcellus", 5>>, <<20240209, "Marcellus", 10>>,
                <<20240209, "Barnett", 3>> } }

\* A week of the rig-count sheet.
AppendRigRow(row) ==
    /\ ~rig.ran
    /\ Len(rig.rows) < MaxRigRows
    /\ rig' = [rig EXCEPT !.rows = Append(@, row)]
    /\ UNCHANGED <<locVars, benchVars, probe, net>>

\* page3: df_rig_latest = get_most_recent_date(df_rig_all), then
\* prep_data_for_graph(df_rig_all, df_rig_latest)
RunPrepDataForGraph ==
    /\ ~rig.ran
    /\ LET result == PrepDataForGraph(rig.rows, GetMostRecentDate(rig.rows))
       IN  rig' = [rows |-> rig.rows, monthly |-> result.monthly, out |-> result.df,
                   fault |-> result.fault, ran |-> TRUE]
    /\ UNCHANGED <<locVars, benchVars, probe, net>>

RigInit == LocIdle /\ BenchIdle /\ ProbeIdle /\ RigIdle

RigNext ==
    \/ \E row \in RigRows : AppendRigRow(row)
    \/ RunPrepDataForGraph

SpecRig == RigInit /\ [][RigNext]_vars

----------------------------------------------------------------------------
(* The header row of the rig-count sheets. A cell is a sequence of         *)
(* characters, a row a sequence of cells, the sheet a sequence of rows.    *)

\* str.lower on a character
Lower(ch) ==
    CASE ch = "D" -> "d"
      [] ch = "B" -> "b"
      [] ch = "U" -> "u"
      [] ch = "R" -> "r"
      [] OTHER -> ch
LowerCase(text) == [k \in 1..Len(text) |-> Lower(text[k])]

\* str.contains(marker), the case kept
ContainsExactCase(text, marker) ==
    \E k \in 0..(Len(text) - Len(marker)) : SubSeq(text, k + 1, k + Len(marker)) = marker

\* str.contains(marker, case=False) on a cell
ContainsNoCase(text, marker) ==
    \E k \in 0..(Len(text) - Len(marker)) :
        SubSeq(LowerCase(text), k + 1, k + Len(marker)) = LowerCase(marker)

\* The rows of raw_df (header=None) with a cell that contains the marker.
MarkerRows(raw_df, marker) ==
    {n \in 1..Len(raw_df) : \E k \in 1..Len(raw_df[n]) : ContainsNoCase(raw_df[n][k], marker)}

\* A parser that returns an empty table for a sheet without the marker.
ReadUnderHeaderOrEmpty(raw_df, marker) ==
    IF MarkerRows(raw_df, marker) = {}
    THEN Ok(EmptyFrame)
    ELSE LET header_row == MinOf(MarkerRows(raw_df, marker))
         IN  Ok(Frame(raw_df[header_row], SubSeq(raw_df, header_row + 1, Len(raw_df))))

\* header_row and the second read_excel(header=header_row) of
\* clean_rig_count_data ("Date") and clean_rig_count_yearly ("Basin"): the
\* first row with the marker gives the column names, the rows under it are
\* the data; .index[0] of no row is an IndexError.
ReadUnderHeader(raw_df, marker) ==
    IF MarkerRows(raw_df, marker) = {}
    THEN Raise("IndexError")
    ELSE LET header_row == MinOf(MarkerRows(raw_df, marker))
         IN  Ok(Frame(raw_df[header_row], SubSeq(raw_df, header_row + 1, Len(raw_df))))

Date == <<"D", "a", "t", "e">>
Basin == <<"B", "a", "s", "i", "n">>
\* The header row of the sheets, a data row, and rows of metadata: a title,
\* a note that holds "date" within a word, one that names the basins, and a
\* title in capitals.
HeaderCells == <<<<"U", "S", "_", "P", "u", "b", "l", "i", "s", "h", "D", "a", "t", "e">>, Basin>>
DataCells == <<<<"2", "0", "2", "4">>, <<"P", "e", "r", "m", "i", "a", "n">>>>
MetadataRows ==
    { <<<<"R", "i", "g", "s">>, <<"n", "a", "n">>>>,
      <<<<"U", "p", "d", "a", "t", "e", "d">>, <<"n", "a", "n">>>>,
      <<<<"n", "a", "n">>, <<"b", "a", "s", "i", "n", "s">>>>,
      <<<<"R", "I", "G", "S">>, <<"D", "A", "T", "E">>>> }
\* Sheets: metadata rows, then the header row or none, then a data row.
RigWorkbooks ==
    { [meta |-> m, header |-> h, data |-> <<DataCells>>] :
        m \in Sheets(MetadataRows), h \in {<<>>, <<HeaderCells>>} }
RawDf(sheet) == sheet.meta \o sheet.header \o sheet.data

\* The two reads of clean_rig_count_data or of clean_rig_count_yearly.
RunReadUnderHeader(sheet, marker) ==
    /\ probe.parser = ""
    /\ LET df == ReadUnderHeader(RawDf(sheet), marker)
       IN  probe' = Probe(IF marker = Date THEN "header Date" ELSE "header Basin",
                          FileOf(sheet, 1), df.fault, df.df)
    /\ UNCHANGED <<locVars, benchVars, rig, net>>

----------------------------------------------------------------------------
(* The production table of page3: the change on the year and the long      *)
(* table of the area chart. Production is in whole Bcf/d.                  *)

\* df.columns[1:] of the table clean_production_data returns
ProdBasins == <<"Marcellus", "Permian">>

\* The days from the last day of 2014 to the date: the difference of two
\* dates is the difference of their day numbers.
DayNumber(d) ==
    LET y == YearOf(d)
        m == MonthOf(d)
        before == <<0, 31, 59, 90, 120, 151, 181, 212, 243, 273, 304, 334>>
    IN  (y - 2015) * 365 + ((y - 2013) \div 4) + before[m]
        + (IF y % 4 = 0 /\ m > 2 THEN 1 ELSE 0) + (d % 100)

\* date - pd.DateOffset(years=1): the same day a year before, the 28th for
\* the 29th of February
YearBefore(d) == IF d % 10000 = 229 THEN d - YearBack - 1 ELSE d - YearBack

\* df[basin_cols].sum(axis=1) of a row: an empty cell adds nothing
RowTotal(r) ==
    SumSeq([k \in 1..Len(ProdBasins) |-> IF IsNA(r[ProdBasins[k]]) THEN 0 ELSE r[ProdBasins[k]]])

\* The difference of two cells
Minus(a, b) == IF IsNA(a) \/ IsNA(b) THEN NaN ELSE a - b

\* The rows of fig_prod_change: sorted by Date, without those of total 0.
NonZeroRows(df) ==
    LET NonZero(r) == RowTotal(r) # 0
    IN  SelectSeq(SortValues(df, "Date").rows, NonZero)

\* Series.sub(date).abs().idxmin(): the first of the rows nearest to the date
IdxMin(rows, date) ==
    LET Off(i) == LET n == DayNumber(rows[i].Date) - DayNumber(date)
                  IN  IF n < 0 THEN 0 - n ELSE n
    IN  CHOOSE i \in 1..Len(rows) :
            /\ \A j \in 1..Len(rows) : Off(i) <= Off(j)
            /\ \A j \in 1..(i - 1) : Off(j) > Off(i)

\* change_df of two rows
ChangeDf(latest_row, prior_row) ==
    Frame(<<"Basin", "YoY Change">>,
          [k \in 1..Len(ProdBasins) |->
              ("Basin" :> ProdBasins[k])
              @@ ("YoY Change" :> Minus(latest_row[ProdBasins[k]], prior_row[ProdBasins[k]]))])

\* A change on the year that wants the prior row within three days of the
\* date a year before, and is empty without one.
FigProdChangeWithinWindow(df) ==
    LET rows == NonZeroRows(df)
        latest_date == MaxOf({rows[i].Date : i \in 1..Len(rows)})
        prior_date == YearBefore(latest_date)
        prior_row == rows[IdxMin(rows, prior_date)]
        empty == [k \in 1..Len(ProdBasins) |-> NaN]
        far == DayNumber(prior_row.Date) - DayNumber(prior_date) > PriorWindowDays
               \/ DayNumber(prior_date) - DayNumber(prior_row.Date) > PriorWindowDays
    IN  IF rows = <<>>
        THEN Raise("ValueError")
        ELSE IF far
        THEN Ok(Frame(<<"Basin", "YoY Change">>,
                      [k \in 1..Len(ProdBasins) |->
                          ("Basin" :> ProdBasins[k]) @@ ("YoY Change" :> NaN)]))
        ELSE Ok(ChangeDf(rows[IdxMin(rows, latest_date)], prior_row))

\* fig_prod_change, to change_df: the row of the latest date less the row
\* nearest to the date a year before it; idxmin of no row is a ValueError.
FigProdChange(df) ==
    LET rows == NonZeroRows(df)
        latest_date == MaxOf({rows[i].Date : i \in 1..Len(rows)})
        prior_date == YearBefore(latest_date)
        latest_row == rows[IdxMin(rows, latest_date)]
        prior_row == rows[IdxMin(rows, prior_date)]
    IN  IF rows = <<>>
        THEN Raise("ValueError")
        ELSE Ok(ChangeDf(latest_row, prior_row))

\* df_prod_long: melt(id_vars="Date"), a block of rows per basin column, and
\* of them the rows of positive production.
DfProdLong(df_prod_raw) ==
    LET Of(k) == [i \in 1..Len(df_prod_raw.rows) |->
                     ("Date" :> df_prod_raw.rows[i].Date) @@ ("Basin" :> ProdBasins[k])
                     @@ ("Production (Bcf/d)" :> df_prod_raw.rows[i][ProdBasins[k]])]
        Positive(r) == ~IsNA(r["Production (Bcf/d)"]) /\ r["Production (Bcf/d)"] > 0
    IN  SelectSeq(Concat([k \in 1..Len(ProdBasins) |-> Of(k)]), Positive)

\* A cutoff that is one date for all basins: the earliest of their last dates.
LastValidProdOfAll(df_prod_long) ==
    LET Of(b) == MaxOf({r.Date : r \in {x \in Range(df_prod_long) : x.Basin = b}})
        basins == {r.Basin : r \in Range(df_prod_long)}
    IN  [b \in basins |-> MinOf({Of(c) : c \in basins})]

\* last_valid_prod: groupby("Basin")["Date"].max(), the LastValidDate by basin
LastValidProd(df_prod_long) ==
    [b \in {r.Basin : r \in Range(df_prod_long)} |->
        MaxOf({r.Date : r \in {x \in Range(df_prod_long) : x.Basin = b}})]

\* df_prod_trimmed: each row with the LastValidDate of its basin, and of
\* these the rows dated no later than it.
DfProdTrimmed(df_prod_long) ==
    LET last == LastValidProd(df_prod_long)
        merged == [i \in 1..Len(df_prod_long) |->
                      df_prod_long[i] @@ ("LastValidDate" :> last[df_prod_long[i].Basin])]
        Kept(r) == r.Date <= r.LastValidDate
    IN  Frame(<<"Date", "Basin", "Production (Bcf/d)", "LastValidDate">>, SelectSeq(merged, Kept))

\* The sheet of production: months of 2023 and 2024, a month without a
\* Permian figure, a month of zeros and a month with Marcellus at zero.
MaxProdRows == 3
ProductionSheetRows ==
    { [Date |-> c[1], Marcellus |-> c[2], Permian |-> c[3]] :
        c \in { <<"2024-07-01", 10, 20>>, <<"2023-06-01", 7, NaN>>, <<"2023-08-01", 8, 15>>,
                <<"2024-03-01", 9, 18>>, <<"2024-08-01", 0, 0>>, <<"2024-09-01", 0, 21>> } }

\* page3: production_change_chart = fig_prod_change(df_prod_raw)
RunFigProdChange(rows) ==
    /\ probe.parser = ""
    /\ LET change_df == FigProdChange(CleanProductionData(rows))
       IN  probe' = Probe("fig_prod_change", FileOf(rows, 1), change_df.fault, change_df.df)
    /\ UNCHANGED <<locVars, benchVars, rig, net>>

\* page3: df_prod_trimmed of the production sheet
RunDfProdTrimmed(rows) ==
    /\ probe.parser = ""
    /\ probe' = Probe("df_prod_trimmed", FileOf(rows, 1), "",
                      DfProdTrimmed(DfProdLong(CleanProductionData(rows))))
    /\ UNCHANGED <<locVars, benchVars, rig, net>>

\* page3: the rig-count processing from the sheet to the table of the chart.
RunRigProcessing(rows) ==
    /\ probe.parser = ""
    /\ LET df_rig_all == CleanRigCountData(rows).rows
           result == PrepDataForGraph(df_rig_all, GetMostRecentDate(df_rig_all))
       IN  probe' = Probe("prep_data_for_graph", FileOf(rows, 1), result.fault, result.df)
    /\ UNCHANGED <<locVars, benchVars, rig, net>>

\* page3: df_yearly = clean_rig_count_yearly(rig_file_path)
RunCleanRigCountYearly(rows) ==
    /\ probe.parser = ""
    /\ probe' = Probe("NAM Yearly", FileOf(rows, 1), "", CleanRigCountYearly(rows))
    /\ UNCHANGED <<locVars, benchVars, rig, net>>

\* page2: df_supply, df_demand = load_balance_data(), then the group-by of
\* supply_area_chart(df_supply)
RunSupplyAreaChart(file) ==
    /\ probe.parser = ""
    /\ probe' = Probe("supply_area_chart", file, "", SupplyAreaChart(LoadBalanceData(file).supply))
    /\ UNCHANGED <<locVars, benchVars, rig, net>>

ProbeNext ==
    \/ \E src \in Sources : \E file \in FilesOf(RawRows(src)) : RunLoadPrices(src, file)
    \/ \E sheet \in {"TTF_Curve", "NG_Curve"} : \E file \in FilesOf(ForwardCells) :
          RunLoadForward(sheet, file)
    \/ \E file \in FilesOf(PipelineRows) : RunLoadPipelineData(file)
    \/ \E q \in Sheets(ProjectRows) : RunUsProductionChart(FileOf(q, 1))
    \/ \E q \in Sheets(ProjectRows) : RunQatarProductionChart(FileOf(q, 1))
    \/ \E file \in {NoFile} \cup {FileOf([supply |-> q, demand |-> q], 1) : q \in Sheets(BalanceRows)} :
          RunLoadBalanceData(file)
    \/ \E rows \in Sheets(RigSheetRows) : RunCleanRigCountData(rows)
    \/ \E rows \in Sheets(ImpExpRows) : RunCleanImpExpData(rows)
    \/ \E rows \in Sheets(ProductionRows) : RunCleanProductionData(rows)
    \/ \E rows \in Sheets(StorageRows) : RunCleanStorageData(rows)
    \/ \E file \in {NoFile} \cup {FileOf(sh, 1) : sh \in EuSheets} : RunLoadEuStorage(file)
    \/ \E sheet \in RigWorkbooks : \E marker \in {Date, Basin} : RunReadUnderHeader(sheet, marker)
    \/ \E rows \in Sheets(RigSheetRows) : RunRigProcessing(rows)
    \/ \E rows \in Sheets(YearlySheetRows) : RunCleanRigCountYearly(rows)
    \/ \E q \in Sheets(BalanceRows) : RunSupplyAreaChart(FileOf([supply |-> q, demand |-> q], 1))
    \/ \E rows \in SeqsUpTo(ProductionSheetRows, MaxProdRows) : RunFigProdChange(rows)
    \/ \E rows \in SeqsUpTo(ProductionSheetRows, MaxProdRows) : RunDfProdTrimmed(rows)
    \/ Discard

SpecParse == ParseInit /\ [][ProbeNext]_vars

\* The rows of the basin in the monthly table, and the first month of them.
MonthlyOf(basin) == {r \in Range(rig.monthly) : r.Basin = basin}
FirstMonth(basin) == MinOf({r.Month : r \in MonthlyOf(basin)})

\* C10: in the monthly table of prep_data_for_graph the first month of every
\* basin has no value, never 0, as its month-over-month change; a basin whose
\* first month is the current month has no value for it in the returned
\* table either.
C10_FirstPeriodHasNoMoM ==
    rig.ran =>
        /\ \A r \in Range(rig.monthly) :
              r.Month = FirstMonth(r.Basin) => r["MoM % Change"] = NoValue
        /\ \A r \in Range(rig.out.rows) :
              (\E m \in MonthlyOf(r.Basin) :
                    /\ m.Month = FirstMonth(r.Basin)
                    /\ \A x \in Range(rig.monthly) : x.Month <= m.Month)
                  => r["MoM % Change"] = NoValue

\* Two basins, one of them with two months: its first month has no value
\* and its second a change that is a number.
C10_Witness ==
    /\ rig.ran
    /\ \E a, b \in Range(rig.monthly) :
          /\ a.Basin = b.Basin
          /\ a.Month < b.Month
          /\ a["MoM % Change"] = NoValue
          /\ b["MoM % Change"].kind = "num"
    /\ \E a, b \in Range(rig.monthly) : a.Basin # b.Basin

\* The rows of df_rig_all of a basin, and its rig count over a set of dates.
RigRowsOf(basin) == {i \in 1..Len(rig.rows) : rig.rows[i].Basin = basin}
RigDatesOf(basin) == {rig.rows[i].US_PublishDate : i \in RigRowsOf(basin)}
RigCountOver(basin, dates) ==
    SumSeq([i \in 1..Len(rig.rows) |->
               IF i \in RigRowsOf(basin) /\ rig.rows[i].US_PublishDate \in dates
               THEN rig.rows[i]["Rig Count Value"] ELSE 0])
InMonth(basin, month) == {d \in RigDatesOf(basin) : MonthStart(d) = month}

\* C11 as stated: the reporting period is the week: for every basin and
\* every publish date of it after its first, the change shown for the
\* period of that date is (current - previous) / previous x 100, with the
\* basin's counts of that week and of the week before it.
C11_AsStated ==
    rig.ran =>
        \A basin \in FOCUS_BASINS : \A d \in RigDatesOf(basin) :
            LET before == {x \in RigDatesOf(basin) : x < d}
                previous == RigCountOver(basin, {MaxOf(before)})
                current == RigCountOver(basin, {d})
            IN  before # {} /\ previous # 0 =>
                    \E r \in MonthlyOf(basin) :
                        /\ r.Month = MonthStart(d)
                        /\ r["MoM % Change"] = Num(((current - previous) * 100) \div previous)

\* C11, amended: the reporting period is the calendar month and the value of
\* a basin in it the sum of its rig counts over all rows of the month: for
\* every basin and every month of it after its first, the change is
\* (current - previous) / previous x 100 with the sums of that month and of
\* the basin's month before it; it is no number where the previous sum is 0.
C11_MonthOverMonthOfSums ==
    rig.ran =>
        \A basin \in FOCUS_BASINS : \A r \in MonthlyOf(basin) :
            LET before == {x.Month : x \in {y \in MonthlyOf(basin) : y.Month < r.Month}}
                previous == RigCountOver(basin, InMonth(basin, MaxOf(before)))
                current == RigCountOver(basin, InMonth(basin, r.Month))
            IN  /\ r["Rig Count Value"] = current
                /\ before # {} =>
                      IF previous = 0 THEN r["MoM % Change"].kind # "num"
                      ELSE r["MoM % Change"] = Num(((current - previous) * 100) \div previous)

\* A basin with 5 in one month and 7 in the next: 40 for the second.
C11_Witness ==
    /\ rig.ran
    /\ \E a, b \in MonthlyOf("Permian") :
          /\ a.Month < b.Month
          /\ a["Rig Count Value"] = 5
          /\ b["Rig Count Value"] = 7
          /\ b["MoM % Change"] = Num(40)

----------------------------------------------------------------------------
(* The price tables of page1, on a merged benchmark table.                 *)

\* Rows of a merged benchmark table, prices in cents.
BenchmarkRows ==
    { ("Date" :> d) @@ ("Henry Hub" :> c[1]) @@ ("JKM" :> c[2]) @@ ("TTF (USD)" :> c[3]) :
        d \in {20240101, 20240102, 20240103},
        c \in { <<200, 1200, 1000>>, <<205, 1200, 1000>>, <<200, 300, 250>>, <<205, 300, 1000>> } }

\* The merged tables: sorted by Date, as get_benchmark_prices_daily leaves them.
BenchmarkTables ==
    { Frame(<<"Date", "Henry Hub", "JKM", "TTF (USD)">>, q) :
        q \in { t \in Sheets(BenchmarkRows) :
                  \A i, j \in 1..Len(t) : i < j => t[i].Date <= t[j].Date } }

\* create_spot_price_table, create_ttf_spread_table and create_jkm_spread_table
\* on the table df, as the module-level code of page1 calls them; .iloc[0] of
\* a table without rows is an IndexError.
RunCreateTables(df) ==
    /\ phase = "setup"
    /\ benchmark_df' = df
    /\ IF LatestRows(df) = {}
       THEN phase' = "failed" /\ UNCHANGED <<price_table, layout>>
       ELSE \E latest \in LatestRows(df) :
               /\ phase' = "tabled"
               /\ price_table' = CreateSpotPriceTable(latest)
               /\ layout' = [layout EXCEPT !["/"].table =
                                CreateSpotPriceTable(latest) \o CreateTtfSpreadTable(latest)
                                    \o CreateJkmSpreadTable(latest)]
    /\ UNCHANGED <<files, chart, page_content, locVars, probe, rig, net>>

\* The tables go out of use.
DiscardTables ==
    /\ phase \in {"tabled", "failed"}
    /\ phase' = "setup"
    /\ benchmark_df' = EmptyFrame
    /\ price_table' = <<>>
    /\ layout' = [p \in Paths |-> NoContent]
    /\ UNCHANGED <<files, chart, page_content, locVars, probe, rig, net>>

SpreadInit == LocIdle /\ BenchIdle /\ ProbeIdle /\ RigIdle

SpreadNext ==
    \/ \E df \in BenchmarkTables : RunCreateTables(df)
    \/ DiscardTables

SpecSpread == SpreadInit /\ [][SpreadNext]_vars

\* C12: the two spread tables show, for a row of the latest date of the
\* merged table: price - Henry Hub; price - Henry Hub x 1.15 - shipping -
\* regas; and that less 2.75; with 0.70 and 0.35 for TTF, 2.20 and 0.50 for
\* JKM (amounts in hundredths of a cent, shown to the cent).
C12_SpreadsOfLatestRow ==
    phase = "tabled" =>
        \E r \in Range(benchmark_df.rows) :
            /\ \A x \in Range(benchmark_df.rows) : x.Date <= r.Date
            /\ LET hh == r["Henry Hub"]
                   ttf == r["TTF (USD)"]
                   jkm == r["JKM"]
                   ttf_var == ttf * 100 - hh * 115 - 7000 - 3500
                   jkm_var == jkm * 100 - hh * 115 - 22000 - 5000
               IN  /\ layout["/"].table[4] =
                         [spread |-> Money4((ttf - hh) * 100),
                          variable_cost |-> Money4(ttf_var),
                          all_in_cost |-> Money4(ttf_var - 27500)]
                   /\ layout["/"].table[5] =
                         [spread |-> Money4((jkm - hh) * 100),
                          variable_cost |-> Money4(jkm_var),
                          all_in_cost |-> Money4(jkm_var - 27500)]

\* Henry Hub 2.00 and TTF 10.00 on the latest date: 8.00 and 6.65.
C12_Witness ==
    /\ phase = "tabled"
    /\ \A r \in Range(benchmark_df.rows) :
          (\A x \in Range(benchmark_df.rows) : x.Date <= r.Date)
              => r["Henry Hub"] = 200 /\ r["TTF (USD)"] = 1000
    /\ Len(benchmark_df.rows) > 1
    /\ layout["/"].table[4].spread = <<"", 8, 0>>
    /\ layout["/"].table[4].variable_cost = <<"", 6, 65>>

----------------------------------------------------------------------------
(* The bands of the storage tables.                                        *)

InBand(actual, r) ==
    /\ r["5-Year Low"] <= actual /\ actual <= r["5-Year High"]
    /\ r["5-Year Low"] <= r["5-Year Avg"] /\ r["5-Year Avg"] <= r["5-Year High"]

\* C13 as stated: in every row of the table of load_eu_storage and of the
\* table of clean_storage_data the actual value and the average lie between
\* the low and the high.
C13_AsStated ==
    /\ probe.parser = "EUR" => \A r \in Range(probe.out.rows) : InBand(r.Total, r)
    /\ probe.parser = "27" => \A r \in Range(probe.out.rows) : InBand(r["Actual Storage"], r)

\* C13, amended: in every row of the table of load_eu_storage Total and the
\* average lie between the low and the high; clean_storage_data computes and
\* checks no band: every row of its table carries the four values of its row
\* of the sheet as they are.
C13_EuBandsHoldUsBandsAsRead ==
    /\ probe.parser = "EUR" => \A r \in Range(probe.out.rows) : InBand(r.Total, r)
    /\ probe.parser = "27" =>
          \A r \in Range(probe.out.rows) : \A c \in Range(Tail(StorageColumns)) :
              r[c] = probe.input.rows[r.index][c]

\* Two years of one month with different totals in the European table: the
\* low is below the high, and both rows lie within.
C13_Witness ==
    /\ probe.parser = "EUR"
    /\ \E a, b \in Range(probe.out.rows) :
          /\ a.Total < b.Total
          /\ a["5-Year Low"] = a.Total /\ a["5-Year High"] = b.Total
          /\ b["5-Year Low"] = a.Total /\ b["5-Year High"] = b.Total

----------------------------------------------------------------------------
(* The year-over-year change of prep_data_for_graph.                       *)

\* The latest date of df_rig_all, and the rows of the basin within three
\* days of the date a year before it.
CurrentDate == MaxOf({rig.rows[i].US_PublishDate : i \in 1..Len(rig.rows)})
Distance(i) ==
    LET d == rig.rows[i].US_PublishDate - (CurrentDate - 10000)
    IN  IF d < 0 THEN 0 - d ELSE d
PriorRowsOf(basin) == {i \in RigRowsOf(basin) : Distance(i) <= 3}

\* C16 as stated: the prior-year count of a basin is the value of the one
\* record of the basin nearest to the date a year before the current one,
\* within three days of it, and the change has no value when there is none.
C16_AsStated ==
    rig.ran /\ rig.fault = "" =>
        \A r \in Range(rig.out.rows) :
            IF PriorRowsOf(r.Basin) = {}
            THEN r["YoY % Change"] = NoValue
            ELSE \E i \in PriorRowsOf(r.Basin) :
                    /\ \A j \in PriorRowsOf(r.Basin) : Distance(i) <= Distance(j)
                    /\ r["Prior Year Rig Count"] = rig.rows[i]["Rig Count Value"]

\* C16, amended: the prior-year count of a basin is the sum of Rig Count
\* Value over all the records of the basin whose publish date lies within
\* three days of the date a year before the current one, the year-over-year
\* change is the change of the current count against that sum, and both have
\* no value when no record of the basin lies in the window.
C16_PriorYearIsSumOverWindow ==
    rig.ran /\ rig.fault = "" =>
        \A r \in Range(rig.out.rows) :
            IF PriorRowsOf(r.Basin) = {}
            THEN r["Prior Year Rig Count"] = NaN /\ r["YoY % Change"] = NoValue
            ELSE LET prior == SumSeq([i \in 1..Len(rig.rows) |->
                                         IF i \in PriorRowsOf(r.Basin)
                                         THEN rig.rows[i]["Rig Count Value"] ELSE 0])
                 IN  /\ r["Prior Year Rig Count"] = prior
                     /\ r["YoY % Change"] = PctChange(prior, r["Rig Count Value"])

\* Two records of the basin on two dates of the window, counts 2 and 4: the
\* prior-year count is 6.
C16_Witness ==
    /\ rig.ran /\ rig.fault = ""
    /\ \E r \in Range(rig.out.rows) :
          /\ r["Prior Year Rig Count"] = 6
          /\ \E i, j \in PriorRowsOf(r.Basin) :
                rig.rows[i].US_PublishDate # rig.rows[j].US_PublishDate

----------------------------------------------------------------------------
(* The bands of the EU storage table.                                      *)

\* The rows of the table load_eu_storage returned that lie in the calendar
\* month number of the row k, whatever their year, and their Totals.
EuRowsOfMonth(k) ==
    {i \in 1..Len(probe.out.rows) :
        (probe.out.rows[i].Date \div 100) % 100 = (probe.out.rows[k].Date \div 100) % 100}
EuTotalsOfMonth(k) == {probe.out.rows[i].Total : i \in EuRowsOfMonth(k)}

----------------------------------------------------------------------------
(* The cumulative capacity of the production charts.                       *)

ChartCountry ==
    IF probe.parser = "us_production_chart" THEN "United States" ELSE "Qatar"
\* The projects of the sheet the chart counts that start by the year y: of
\* the chart's country, online or under construction, with a first cargo in
\* a year up to y.
StartedBy(y) ==
    {i \in 1..Len(probe.input.rows) :
        LET r == probe.input.rows[i]
        IN  /\ r.Country = ChartCountry
            /\ r.Status \in {"Online", "Under Construction"}
            /\ ToDatetime(r["First Cargo"]) # NaT
            /\ ToDatetime(r["First Cargo"]) \div 10000 <= y}
CapacityBy(y) ==
    SumSeq([i \in 1..Len(probe.input.rows) |->
               IF i \in StartedBy(y) /\ probe.input.rows[i].MTPA # NaN
               THEN probe.input.rows[i].MTPA ELSE 0])

\* C18: the bars of us_production_chart and qatar_production_chart are in
\* ascending order of year, one for each year in which a counted project of
\* the country has its first cargo; the cumulative MTPA of the bar of year Y
\* is the sum of MTPA over the projects of the country that are Online or
\* Under Construction and have a first-cargo year up to Y, so that the last
\* bar carries the total of all of them.
C18_CumulativeByYear ==
    probe.parser \in {"us_production_chart", "qatar_production_chart"} =>
        LET bars == probe.out.rows
        IN  /\ \A n \in 1..(Len(bars) - 1) : bars[n].Year < bars[n + 1].Year
            /\ \A n \in 1..Len(bars) : bars[n]["Cumulative MTPA"] = CapacityBy(bars[n].Year)
            /\ \A i \in StartedBy(9999) :
                  \E n \in 1..Len(bars) :
                      bars[n].Year = ToDatetime(probe.input.rows[i]["First Cargo"]) \div 10000
            /\ bars # <<>> => bars[Len(bars)]["Cumulative MTPA"] = CapacityBy(9999)

\* Two counted projects of the United States in two years, the later one
\* first in the sheet: the second bar carries the sum of both.
C18_Witness ==
    /\ probe.parser = "us_production_chart"
    /\ Len(probe.out.rows) = 2
    /\ probe.out.rows[1]["Cumulative MTPA"] = 3
    /\ probe.out.rows[2]["Cumulative MTPA"] = 8
    /\ probe.input.rows[1].MTPA = 5

----------------------------------------------------------------------------
(* The renaming of sub-basins and countries.                               *)

SubBasins == {"Ardmore Woodford", "Arkoma Woodford", "Cana Woodford"}
\* The rows of the sheet at hand that are of the United States and of gas,
\* of those the ones published in 2016 or later (weekly sheet) or of a year
\* from 2016 (yearly sheet), and of those the Woodford ones under any name.
UsGasRows ==
    {i \in 1..Len(probe.input.rows) :
        /\ Strip(probe.input.rows[i].Country) = "UNITED STATES"
        /\ Strip(probe.input.rows[i].DrillFor) = "Gas"}
WeeklyDate(i) == ToDatetime(probe.input.rows[i].US_PublishDate)
WeeklyPassing == {i \in UsGasRows : WeeklyDate(i) # NaT /\ WeeklyDate(i) \div 10000 >= 2016}
YearlyPassing == {i \in UsGasRows : probe.input.rows[i].Year >= 2016}
IsWoodford(i) == probe.input.rows[i].Basin \in SubBasins \cup {"Woodford"}
RigsOf(rowset) ==
    SumSeq([i \in 1..Len(probe.input.rows) |->
               IF i \in rowset THEN probe.input.rows[i]["Rig Count Value"] ELSE 0])
\* The supply rows of the sheet of a region, under the region's or a member's
\* name, and their total.
SupplyOf(names) ==
    SumSeq([i \in 1..Len(probe.input.rows.supply) |->
               IF probe.input.rows.supply[i].Country \in names
               THEN probe.input.rows.supply[i]["2024"] ELSE 0])

\* C19: the renaming comes before the filter on the focus basins and before
\* the sums. No row of the table of clean_rig_count_data or of
\* clean_rig_count_yearly names a Woodford sub-basin; a row of the sheet that
\* names one and is of the United States, of gas and of 2016 or later is in
\* the weekly table as Woodford, and its rigs are in the Woodford count of
\* the current week and in the Woodford sum of its year. No row of the supply
\* chart names Nigeria, Mozambique, Australia, Malaysia or Indonesia: their
\* volumes are in the sums of Africa and of Asia-Pacific.
C19_RenamedBeforeFilterAndSum ==
    /\ probe.parser = "NAM Weekly" =>
          /\ \A r \in Range(probe.out.rows) : r.Basin \notin SubBasins
          /\ \A i \in WeeklyPassing :
                probe.input.rows[i].Basin \in SubBasins =>
                    \E r \in Range(probe.out.rows) : r.index = i /\ r.Basin = "Woodford"
    /\ probe.parser = "prep_data_for_graph" /\ probe.fault = "" =>
          LET current == {i \in WeeklyPassing : \A j \in WeeklyPassing : WeeklyDate(j) <= WeeklyDate(i)}
              woodford == {i \in current : IsWoodford(i)}
          IN  /\ \A r \in Range(probe.out.rows) : r.Basin \notin SubBasins
              /\ woodford # {} =>
                    \E r \in Range(probe.out.rows) :
                        r.Basin = "Woodford" /\ r["Rig Count Value"] = RigsOf(woodford)
    /\ probe.parser = "NAM Yearly" =>
          /\ \A r \in Range(probe.out.rows) : r.Basin \notin SubBasins
          /\ \A i \in YearlyPassing :
                IsWoodford(i) =>
                    \E r \in Range(probe.out.rows) :
                        /\ r.Year = probe.input.rows[i].Year
                        /\ r.Basin = "Woodford"
                        /\ r["Rig Count Value"] =
                              RigsOf({j \in YearlyPassing :
                                        /\ IsWoodford(j)
                                        /\ probe.input.rows[j].Year = probe.input.rows[i].Year})
    /\ probe.parser = "supply_area_chart" =>
          /\ \A r \in Range(probe.out.rows) :
                r.Country \notin {"Nigeria", "Mozambique", "Australia", "Malaysia", "Indonesia"}
          /\ \A r \in Range(probe.out.rows) :
                /\ r.Country = "Africa" => r["2024"] = SupplyOf({"Africa", "Nigeria", "Mozambique"})
                /\ r.Country = "Asia-Pacific" =>
                      r["2024"] = SupplyOf({"Asia-Pacific", "Australia", "Malaysia", "Indonesia"})
          /\ \A i \in 1..Len(probe.input.rows.supply) :
                /\ probe.input.rows.supply[i].Country \in {"Nigeria", "Mozambique"} =>
                      \E r \in Range(probe.out.rows) : r.Country = "Africa"
                /\ probe.input.rows.supply[i].Country \in {"Australia", "Malaysia", "Indonesia"} =>
                      \E r \in Range(probe.out.rows) : r.Country = "Asia-Pacific"

\* Two sub-basins of Woodford in one year of the yearly sheet: one Woodford
\* row with the rigs of both.
C19_Witness ==
    /\ probe.parser = "NAM Yearly"
    /\ \E i, j \in YearlyPassing :
          /\ probe.input.rows[i].Basin = "Cana Woodford"
          /\ probe.input.rows[j].Basin = "Arkoma Woodford"
    /\ \E r \in Range(probe.out.rows) : r.Basin = "Woodford" /\ r["Rig Count Value"] = 5

----------------------------------------------------------------------------
(* The row filter of clean_rig_count_data.                                 *)

\* C20: every row of the table of clean_rig_count_data is of the country
\* UNITED STATES, drills for Gas and has a publish date of 2016 or later;
\* every row of the sheet that is so (padding blanks aside) is in the table,
\* once and in the order of the sheet; every other row, one without a
\* readable date included, is left out, and the call raises nothing.
C20_RowFilter ==
    probe.parser = "NAM Weekly" =>
        LET out == probe.out.rows
        IN  /\ probe.fault = ""
            /\ \A r \in Range(out) :
                  /\ r.Country = "UNITED STATES"
                  /\ r.DrillFor = "Gas"
                  /\ r.US_PublishDate # NaT
                  /\ r.US_PublishDate \div 10000 >= 2016
            /\ {out[k].index : k \in 1..Len(out)} = WeeklyPassing
            /\ \A k \in 1..(Len(out) - 1) : out[k].index < out[k + 1].index

\* A sheet of a row that passes and a row that fails a predicate.
C20_Witness ==
    /\ probe.parser = "NAM Weekly"
    /\ Len(probe.input.rows) = 2
    /\ Len(probe.out.rows) = 1
    /\ \E i \in 1..2 :
          /\ probe.input.rows[i].DrillFor = "Oil"
          /\ probe.input.rows[i].US_PublishDate = "2024-01-01"

----------------------------------------------------------------------------
(* The header row found under leading metadata.                            *)

HeaderParsers == {"header Date", "header Basin"}
MarkerOf(parser) == IF parser = "header Date" THEN <<"d", "a", "t", "e">> ELSE <<"b", "a", "s", "i", "n">>
\* The metadata rows of the sheet at hand that hold the parser's marker in
\* some cell, in any case.
MarkedMetadata ==
    {n \in 1..Len(probe.input.rows.meta) :
        \E k \in 1..Len(probe.input.rows.meta[n]) :
            Contains(LowerCase(probe.input.rows.meta[n][k]), MarkerOf(probe.parser))}

----------------------------------------------------------------------------
(* A rig-count sheet without the marker.                                   *)

\* No row of the sheet at hand, metadata, header or data, holds the parser's
\* marker in a cell.
NoRowHoldsMarker ==
    \A n \in 1..Len(RawDf(probe.input.rows)) :
        \A k \in 1..Len(RawDf(probe.input.rows)[n]) :
            ~Contains(LowerCase(RawDf(probe.input.rows)[n][k]), MarkerOf(probe.parser))

----------------------------------------------------------------------------
(* The production table: the change on the year, the trim.                 *)

\* The rows of the sheet at hand as clean_production_data returns them, and
\* of them the rows with a total other than zero.
ProdRowsAtHand == Range(CleanProductionData(probe.input.rows).rows)
NonZeroAtHand == {r \in ProdRowsAtHand : \E k \in 1..Len(ProdBasins) :
                                            ~IsNA(r[ProdBasins[k]]) /\ r[ProdBasins[k]] # 0}
DaysApart(d, e) ==
    IF DayNumber(d) < DayNumber(e) THEN DayNumber(e) - DayNumber(d) ELSE DayNumber(d) - DayNumber(e)

\* C27: fig_prod_change has no tolerance window. For a production table with
\* a row of a total other than zero a change is produced, and it is that of
\* the latest row against the row nearest in days to the date a year before
\* the latest, however far from that date the row is; with one date in the
\* table the prior row is the latest row and the change is 0 (or empty).
C27_PriorRowIsNearestHoweverFar ==
    probe.parser = "fig_prod_change" =>
        /\ NonZeroAtHand # {} <=> probe.fault = ""
        /\ NonZeroAtHand # {} =>
              \E latest \in NonZeroAtHand, prior \in NonZeroAtHand :
                  /\ \A r \in NonZeroAtHand : r.Date <= latest.Date
                  /\ \A r \in NonZeroAtHand :
                        DaysApart(prior.Date, YearBefore(latest.Date))
                            <= DaysApart(r.Date, YearBefore(latest.Date))
                  /\ Len(probe.out.rows) = Len(ProdBasins)
                  /\ \A k \in 1..Len(ProdBasins) :
                        /\ probe.out.rows[k].Basin = ProdBasins[k]
                        /\ probe.out.rows[k]["YoY Change"] =
                              IF IsNA(latest[ProdBasins[k]]) \/ IsNA(prior[ProdBasins[k]])
                              THEN NaN
                              ELSE latest[ProdBasins[k]] - prior[ProdBasins[k]]
        /\ Cardinality({r.Date : r \in NonZeroAtHand}) = 1 =>
              \A k \in 1..Len(ProdBasins) : probe.out.rows[k]["YoY Change"] \in {0, NaN}

\* A table of March and July 2024: the row nearest to July 2023 is that of
\* March 2024, 244 days from it, and the change is that of four months.
C27_Witness ==
    /\ probe.parser = "fig_prod_change"
    /\ {r.Date : r \in NonZeroAtHand} = {20240301, 20240701}
    /\ DaysApart(20240301, YearBefore(20240701)) = 244
    /\ probe.out.rows[1]["YoY Change"] = 1
    /\ probe.out.rows[2]["YoY Change"] = 2

\* C28: the trim by LastValidDate removes nothing. df_prod_trimmed holds the
\* rows of df_prod_long, in their order, each with the LastValidDate of its
\* basin beside it: the rows of positive production and no other.
C28_TrimIsNoOp ==
    probe.parser = "df_prod_trimmed" =>
        LET df_prod_long == DfProdLong(CleanProductionData(probe.input.rows))
        IN  /\ Len(probe.out.rows) = Len(df_prod_long)
            /\ \A i \in 1..Len(df_prod_long) :
                  /\ [c \in {"Date", "Basin", "Production (Bcf/d)"} |-> probe.out.rows[i][c]]
                        = df_prod_long[i]
                  /\ probe.out.rows[i]["Production (Bcf/d)"] > 0
            /\ Len(df_prod_long) =
                  Cardinality({<<i, k>> \in (1..Len(probe.input.rows)) \X (1..Len(ProdBasins)) :
                                  /\ ~IsNA(probe.input.rows[i][ProdBasins[k]])
                                  /\ probe.input.rows[i][ProdBasins[k]] > 0})

\* Marcellus ends in July and Permian in September: the Permian row of
\* September, later than the last date of Marcellus, is kept.
C28_Witness ==
    /\ probe.parser = "df_prod_trimmed"
    /\ Len(probe.out.rows) = 3
    /\ \E i \in 1..3 : /\ probe.out.rows[i].Basin = "Permian"
                        /\ probe.out.rows[i].Date = 20240901
                        /\ probe.out.rows[i].LastValidDate = 20240901
    /\ \E i \in 1..3 : /\ probe.out.rows[i].Basin = "Marcellus"
                        /\ probe.out.rows[i].LastValidDate = 20240701

----------------------------------------------------------------------------
(* A benchmark file missing at the start of the process.                   *)

MissingBenchmark == \E src \in Sources : ~files[src].present

\* C22: when the file of HenryHub, of JKM or of TTF_Daily is absent as the
\* process starts, the merged benchmark table has no row and the import of
\* page1 ends in a fault before any download is requested: with the forward
\* workbook in place the fault is the IndexError of the latest-row access of
\* create_spot_price_table. No table is built for "no data": the layout of
\* page1 is never built, and a process that serves found all three files.
C22_MissingBenchmarkFileFaults ==
    /\ [][phase = "boot" /\ MissingBenchmark =>
              /\ GetBenchmarkPricesDaily(files).rows = <<>>
              /\ \A b \in Builds(files) :
                    /\ b.fault # "" /\ b.page = 1
                    /\ files["TTFCurve1"].present => b.fault = "IndexError"
              /\ phase' = "failed"
              /\ net' = NoGets
              /\ layout' = layout /\ price_table' = price_table]_vars
    /\ [](phase = "failed" => layout["/"] = NoContent /\ price_table = <<>>)
    /\ [](phase = "serving" => ~MissingBenchmark /\ price_table # <<>>)

\* The import failed with the file of JKM alone missing.
C22_Witness ==
    /\ phase = "failed"
    /\ ~files["JKM"].present
    /\ \A s \in FileSources \ {"JKM"} : files[s].present
    /\ layout["/"] = NoContent

----------------------------------------------------------------------------
(* A fault in update_chart.                                                *)

TickRaised == net.tick \notin {"", "returned"}

----------------------------------------------------------------------------
(* What a tick leaves alone.                                               *)

\* C25: a tick of update_chart replaces the benchmark chart and the
\* last-updated text of the pricing page by those of the files as they are,
\* and nothing else: the spot-price table, the two spread tables and the
\* forward-curve chart on the page, and the layouts and tables the process
\* holds, stay those of the start of the process.
C25_TickChangesChartAndStampOnly ==
    /\ [][net'.tick = "returned" /\ net.tick # "returned" =>
              /\ page_content'.path = "/"
              /\ page_content'.chart =
                    [rows |-> CreateBenchmarkPriceChart(GetBenchmarkPricesDaily(files)),
                     stamp |-> GetLastModifiedTime(files)]
              /\ page_content'.table = page_content.table
              /\ page_content'.figures = page_content.figures
              /\ <<layout, price_table, chart, benchmark_df, files>>'
                    = <<layout, price_table, chart, benchmark_df, files>>]_vars
    /\ [](phase = "serving" /\ page_content.path = "/" =>
              /\ page_content.table = layout["/"].table
              /\ page_content.figures = layout["/"].figures)
    /\ [][phase = "serving" => layout' = layout /\ price_table' = price_table]_vars

\* After a new Henry Hub file and a tick, the latest point of the chart on
\* the page is 3.00 and the spot-price table beside it still says 2.00.
C25_Witness ==
    /\ phase = "serving"
    /\ page_content.path = "/"
    /\ net.tick = "returned"
    /\ page_content.chart.rows # <<>>
    /\ page_content.chart.rows[Len(page_content.chart.rows)]["Henry Hub"] = 300
    /\ page_content.table[1].Price = Money(200)

----------------------------------------------------------------------------
(* The downloads of page3, page4 and page5.                                *)

\* C14: a call of a download function makes exactly one GET; when the request
\* fails or is answered with an error status the exception reaches the
\* importing page, which ends the import: no second request is made, the
\* file at the path is left as it was, and no layout is computed from a copy
\* saved by an earlier run. A process that serves made one request for each
\* download, none of which failed, and its layouts show the files fetched.
C14_OneGetNoRetryNoFallback ==
    /\ \A d \in Downloads : net.gets[d] \in {0, 1}
    /\ net.failed # "" =>
          /\ net.gets[net.failed] = 1
          /\ phase = "failed"
          /\ files[net.failed] \in {NoFile, SavedCopy(net.failed)}
          /\ layout = [p \in Paths |-> NoContent]
          /\ page_content = Shown("", NoContent)
          /\ \A d \in Downloads : PlaceOf(d) > PlaceOf(net.failed) => net.gets[d] = 0
    /\ phase = "serving" =>
          /\ net.failed = ""
          /\ \A d \in Downloads : net.gets[d] = 1
          /\ layout["/rigs"].figures =
                 CleanRigCountData(Downloaded("NAM Weekly").rows).rows
                     \o CleanProductionData(Downloaded("43").rows).rows
          /\ layout["/lng"].figures = CleanImpExpData(Downloaded("By Country Summary").rows).rows

\* A download failed although an earlier run had left a copy of its file.
C14_Witness ==
    /\ net.failed # ""
    /\ files[net.failed] = SavedCopy(net.failed)
    /\ net.error = "HTTPError"

\* C24: a download function writes its file only after the response passed
\* raise_for_status. The import in which a download fails leaves the file at
\* the path of that download as it was before, absent if it was absent and
\* with the content of the earlier run otherwise, and the files of the
\* downloads after it too; the downloads before it, and every download of an
\* import that serves, left the content of their response.
C24_FileWrittenOnlyAfterStatusCheck ==
    [][phase = "boot" /\ phase' # "boot" =>
          \A d \in Downloads :
              /\ net'.gets[d] = 1 /\ net'.failed # d => files'[d] = Downloaded(d)
              /\ net'.failed = d \/ net'.gets[d] = 0 => files'[d] = files[d]]_vars

\* The second download of page3 failed where no earlier run had left its
\* file: the file of the first is written, that of the second is not there.
C24_Witness ==
    /\ net.failed = "43"
    /\ net.error = "ConnectionError"
    /\ ~files["43"].present
    /\ files["NAM Weekly"] = Downloaded("NAM Weekly")

----------------------------------------------------------------------------
(* A fault at the start of the process.                                    *)

\* The module-level code of some page raises on the files the import meets.
StartFaults == \A b \in Builds(Fetched(files, Len(DownloadOrder))) : b.fault # ""
\* The files page1 reads are there.
Page1Healthy == \A s \in Sources \cup {"TTFCurve1"} : files[s].present

\* C15: when the module-level code of one of the pages raises during the
\* imports of Nat_Gas_Dashboard, or one of their downloads fails, the process
\* ends there: it never serves, and display_page never puts a page in the
\* browser, not even a page whose own files are all there.
C15_FaultAtStartNoPageServed ==
    /\ [][phase = "boot" /\ StartFaults => phase' = "failed"]_vars
    /\ [][phase = "failed" => phase' = "failed" /\ page_content' = page_content]_vars
    /\ [](phase = "failed" => page_content = Shown("", NoContent))

\* page2 raised for its missing workbook while the files of page1 are there.
C15_Witness ==
    /\ phase = "failed"
    /\ net.failed = ""
    /\ Page1Healthy
    /\ ~files["LNG_Production"].present
    /\ page_content = Shown("", NoContent)

====
